---- MODULE Spec2Model ----
(***************************************************************************)
(* X-56 HOTAS RGB utility: the device-control engine.                      *)
(*                                                                         *)
(* The module models X56UsbBackend (usb_backend.py): enumeration, the      *)
(* batch dispatcher set_rgb_many, the four-attempt retry of                *)
(* _set_rgb_single and the claim / transfer / release sequence of          *)
(* _send_rgb_with_setup, one USB call per step, together with the window's *)
(* refresh_devices (main_window.py).  The USB stack is the environment:    *)
(* every call into it either succeeds or raises, chosen nondeterministic-  *)
(* ally.  A call that raises has no effect on the hardware.                *)
(***************************************************************************)
EXTENDS Integers, Sequences, FiniteSets, TLC

(***************************************************************************)
(* Bounds of the model.                                                    *)
(***************************************************************************)
\* number of supported physical devices that can be on the bus
MaxDevices == 2
\* longest target selector (device_ids) a caller passes
MaxSelLen == 2
\* the handles of a scan carry the number of the scan, counted modulo MaxGen
MaxGen == 2

(***************************************************************************)
(* protocol.py                                                             *)
(***************************************************************************)
VENDOR_ID == 1848
PID_JOYSTICK == 8737
PID_THROTTLE == 41505
SUPPORTED_PRODUCTS == {PID_JOYSTICK, PID_THROTTLE}
ProductName(pid) == IF pid = PID_JOYSTICK THEN "X-56 Joystick" ELSE "X-56 Throttle"

WVALUE_RGB == 777
WVALUE_APPLY == 768
WINDEX_INTERFACE_2 == 2 * 256
PACKET_SIZE == 64

\* a packet with the blue byte ahead of the red one
build_rgb_packetBGR(red, green, blue) ==
    [i \in 1..PACKET_SIZE |->
        CASE i = 1 -> 9
          [] i = 2 -> 0
          [] i = 3 -> 3
          [] i = 4 -> blue
          [] i = 5 -> green
          [] i = 6 -> red
          [] OTHER -> 0]

build_rgb_packet(red, green, blue) ==
    [i \in 1..PACKET_SIZE |->
        CASE i = 1 -> 9
          [] i = 2 -> 0
          [] i = 3 -> 3
          [] i = 4 -> red
          [] i = 5 -> green
          [] i = 6 -> blue
          [] OTHER -> 0]

build_apply_packet ==
    [i \in 1..PACKET_SIZE |-> IF i \in {1, 2} THEN 1 ELSE 0]

(***************************************************************************)
(* Text.  A message is a sequence of one-character strings, so that        *)
(* lower(), strip() and the substring test act on its characters.          *)
(***************************************************************************)
UpperLetters == <<"A","B","C","D","E","F","G","H","I","J","K","L","M",
                  "N","O","P","Q","R","S","T","U","V","W","X","Y","Z">>
LowerLetters == <<"a","b","c","d","e","f","g","h","i","j","k","l","m",
                  "n","o","p","q","r","s","t","u","v","w","x","y","z">>

LowerChar(c) ==
    IF \E i \in 1..Len(UpperLetters) : UpperLetters[i] = c
    THEN LowerLetters[CHOOSE i \in 1..Len(UpperLetters) : UpperLetters[i] = c]
    ELSE c

\* str.lower()
Lower(s) == [i \in 1..Len(s) |-> LowerChar(s[i])]

\* sub in s
Contains(s, sub) ==
    \E i \in 0..(Len(s) - Len(sub)) : SubSeq(s, i + 1, i + Len(sub)) = sub

\* str.strip(): leading and trailing blanks removed
Strip(s) ==
    LET nonblank == {i \in 1..Len(s) : s[i] # " "}
    IN  IF nonblank = {} THEN <<>>
        ELSE SubSeq(s,
                    CHOOSE i \in nonblank : \A j \in nonblank : i <= j,
                    CHOOSE i \in nonblank : \A j \in nonblank : j <= i)

PipeErrorText == <<"p","i","p","e"," ","e","r","r","o","r">>

Range(s) == {s[i] : i \in 1..Len(s)}

UpperChar(c) ==
    IF \E i \in 1..Len(LowerLetters) : LowerLetters[i] = c
    THEN UpperLetters[CHOOSE i \in 1..Len(LowerLetters) : LowerLetters[i] = c]
    ELSE c

(***************************************************************************)
(* calibration.py: ColorOffset and ColorCalibration.  None is the value    *)
(* "<None>" of an optional name.  A dict is a function on its keys.  The   *)
(* optional dict target_offsets is a record: none tells None from a dict,  *)
(* map holds the dict (empty for None).                                    *)
(***************************************************************************)
None == "<None>"

CHANNELS == <<"R", "G", "B">>

\* the palette, in the order the dict is written
CALIBRATION_COLORS ==
    << [name |-> "Red", rgb |-> <<255, 0, 0>>],
       [name |-> "Green", rgb |-> <<0, 255, 0>>],
       [name |-> "Blue", rgb |-> <<0, 0, 255>>],
       [name |-> "Orange", rgb |-> <<190, 20, 0>>],
       [name |-> "Purple", rgb |-> <<180, 0, 200>>],
       [name |-> "Pink", rgb |-> <<190, 4, 18>>],
       [name |-> "White", rgb |-> <<255, 255, 255>>] >>

PaletteNames == {CALIBRATION_COLORS[i].name : i \in 1..Len(CALIBRATION_COLORS)}

ColorOffset(red, green, blue) == [red |-> red, green |-> green, blue |-> blue]

NoDict == [none |-> TRUE, map |-> <<>>]
Dict(map) == [none |-> FALSE, map |-> map]

ColorCalibration(order, gain_r, gain_g, gain_b, target_offsets) ==
    [order |-> order, gain_r |-> gain_r, gain_g |-> gain_g, gain_b |-> gain_b,
     target_offsets |-> target_offsets]

\* "x or y" on an optional name: None and the empty name are false
Falsy(name) == name = None \/ name = ""

\* self.target_offsets or {}
OffsetsOf(cal) == IF cal.target_offsets.none THEN <<>> ELSE cal.target_offsets.map

\* line 74, without the square root, which keeps the order of the sums
Distance(red, green, blue, rgb) ==
    (red - rgb[1]) * (red - rgb[1]) + (green - rgb[2]) * (green - rgb[2])
        + (blue - rgb[3]) * (blue - rgb[3])

\* a comparison that lets a later palette entry at the same distance win
CloserOrEqual(distance, best_distance) == best_distance < 0 \/ distance <= best_distance

\* line 75: distance < best_distance, a negative best_distance standing for
\* float("inf")
Closer(distance, best_distance) == best_distance < 0 \/ distance < best_distance

\* lines 71-78: the loop from palette entry i on
RECURSIVE ClosestFrom(_, _, _, _, _, _)
ClosestFrom(i, best_name, best_distance, red, green, blue) ==
    IF i > Len(CALIBRATION_COLORS) THEN best_name
    ELSE LET distance == Distance(red, green, blue, CALIBRATION_COLORS[i].rgb)
         IN  IF Closer(distance, best_distance)
             THEN ClosestFrom(i + 1, CALIBRATION_COLORS[i].name, distance, red, green, blue)
             ELSE ClosestFrom(i + 1, best_name, best_distance, red, green, blue)

closest_target_name(red, green, blue) == ClosestFrom(1, "White", -1, red, green, blue)

\* max(0, min(255, x))
Min(a, b) == IF a < b THEN a ELSE b
Max(a, b) == IF a > b THEN a ELSE b
Clamp255(x) == Max(0, Min(255, x))

\* an apply that adds the offset and does not clamp
applyNoClamp(cal, red, green, blue, target_name) ==
    LET offsets == OffsetsOf(cal)
    IN  IF DOMAIN offsets # {}
        THEN LET selected_target == IF Falsy(target_name)
                                    THEN closest_target_name(red, green, blue)
                                    ELSE target_name
             IN  IF selected_target \in DOMAIN offsets
                 THEN <<red + offsets[selected_target].red,
                        green + offsets[selected_target].green,
                        blue + offsets[selected_target].blue>>
                 ELSE <<red, green, blue>>
        ELSE <<red, green, blue>>

\* an apply that asks for the nearest target first
applyNearestFirst(cal, red, green, blue, target_name) ==
    LET offsets == OffsetsOf(cal)
    IN  IF DOMAIN offsets # {}
        THEN LET selected_target == closest_target_name(red, green, blue)
             IN  IF selected_target \in DOMAIN offsets
                 THEN <<Clamp255(red + offsets[selected_target].red),
                        Clamp255(green + offsets[selected_target].green),
                        Clamp255(blue + offsets[selected_target].blue)>>
                 ELSE <<red, green, blue>>
        ELSE <<red, green, blue>>

\* lines 55-67
apply(cal, red, green, blue, target_name) ==
    LET offsets == OffsetsOf(cal)
    IN  IF DOMAIN offsets # {}
        THEN LET selected_target == IF Falsy(target_name)
                                    THEN closest_target_name(red, green, blue)
                                    ELSE target_name
             IN  IF selected_target \in DOMAIN offsets
                 THEN <<Clamp255(red + offsets[selected_target].red),
                        Clamp255(green + offsets[selected_target].green),
                        Clamp255(blue + offsets[selected_target].blue)>>
                 ELSE <<red, green, blue>>
        ELSE <<red, green, blue>>

\* lines 84-93
with_offset(cal, target_name, offset) ==
    ColorCalibration(cal.order, cal.gain_r, cal.gain_g, cal.gain_b,
                     Dict([k \in DOMAIN OffsetsOf(cal) \cup {target_name} |->
                              IF k = target_name THEN offset ELSE OffsetsOf(cal)[k]]))

\* ColorOffset.to_json and ColorCalibration.to_json: the dicts they build
offset_to_json(offset) == [red |-> offset.red, green |-> offset.green, blue |-> offset.blue]

to_json(cal) ==
    LET offsets == OffsetsOf(cal)
    IN  [order |-> cal.order,
         gain_r |-> cal.gain_r,
         gain_g |-> cal.gain_g,
         gain_b |-> cal.gain_b,
         target_offsets |-> [k \in DOMAIN offsets |-> offset_to_json(offsets[k])]]

\* ColorOffset.from_json of a dict that holds the three integers
offset_from_json(data) == ColorOffset(data.red, data.green, data.blue)

\* a parse that keeps the offsets of every name
_parse_offsetsAnyKey(raw) == [key \in DOMAIN raw |-> offset_from_json(raw[key])]

\* lines 133-143, of a dict of dicts keyed by names
_parse_offsets(raw) ==
    [key \in {k \in DOMAIN raw : k \in PaletteNames} |-> offset_from_json(raw[key])]

\* a from_json that does not read the order
from_jsonDefaultOrder(data) ==
    ColorCalibration(CHANNELS, data.gain_r, data.gain_g, data.gain_b,
                     Dict(_parse_offsets(data.target_offsets)))

\* lines 105-123, of a dict that holds the five keys
from_json(data) ==
    LET order_raw == data.order
        parsed == [i \in 1..Len(order_raw) |-> UpperChar(order_raw[i])]
        order == IF Len(order_raw) # 3 THEN CHANNELS
                 ELSE IF \E i \in 1..3 : parsed[i] \notin Range(CHANNELS) THEN CHANNELS
                 ELSE parsed
    IN  ColorCalibration(order, data.gain_r, data.gain_g, data.gain_b,
                         Dict(_parse_offsets(data.target_offsets)))

\* usb_backend.py lines 116-121: the color set_rgb_many sends to the device
\* with this id; calibrations is a dict from ids to calibrations
NoCalibrations == <<>>

DeviceColor(id, red, green, blue, calibrations, calibration_target) ==
    IF id \in DOMAIN calibrations
    THEN LET target_name == IF Falsy(calibration_target)
                            THEN closest_target_name(red, green, blue)
                            ELSE calibration_target
         IN  apply(calibrations[id], red, green, blue, target_name)
    ELSE <<red, green, blue>>

(***************************************************************************)
(* Exceptions.  errno 0 stands for an exception that carries no errno.     *)
(***************************************************************************)
NoExc == [type |-> "none", errno |-> 0, msg |-> <<>>]
USBError(errno, msg) == [type |-> "USBError", errno |-> errno, msg |-> msg]
BackendError(msg) == [type |-> "BackendError", errno |-> 0, msg |-> msg]
NotImplemented == [type |-> "NotImplementedError", errno |-> 0, msg |-> <<>>]
\* any exception that is neither a USBError nor a BackendError
OtherExc == [type |-> "Exception", errno |-> 0, msg |-> <<>>]

\* The transport errors the USB stack raises in the model.  pyusb builds the
\* text of a USBError as "[Errno n] strerror", so it is never blank; here: a
\* pipe error told by its errno alone, a pipe error told by its text (errno
\* absent, mixed case), and an I/O error, with a trailing blank, that is no
\* pipe error.
ErrPipeErrno == USBError(32, <<"[", "3", "2", "]">>)
ErrPipeText == USBError(0, <<"P","i","p","e"," ","E","r","r","o","r">>)
ErrIo == USBError(5, <<"i", "o", " ">>)
USBErrors == {ErrPipeErrno, ErrPipeText, ErrIo}

(***************************************************************************)
(* The bus.  Every device has the vendor id the scan asks for.  Supported  *)
(* device k alternates between the two products; its bus and address are   *)
(* chosen so that the order by (bus, address) differs from the order by    *)
(* address alone.  One more device carries an unsupported product id.      *)
(***************************************************************************)
PhysicalDevice(k) ==
    [idVendor |-> VENDOR_ID,
     idProduct |-> IF k % 2 = 1 THEN PID_JOYSTICK ELSE PID_THROTTLE,
     bus |-> 1 + (k % 2),
     address |-> k]

UnsupportedDevice ==
    [idVendor |-> VENDOR_ID, idProduct |-> 4660, bus |-> 1, address |-> 1]

Universe == {PhysicalDevice(k) : k \in 1..MaxDevices} \cup {UnsupportedDevice}

VARIABLES
    listing,          \* the handles the last bus scan that succeeded returned
    handleGen,        \* the number of that scan, modulo MaxGen
    trackScans        \* the scans are told apart and their listing is recorded

\* usb.core.find builds new usb.core.Device objects at every call: a handle is
\* a device of the bus with the number of the scan that made it.
NextGen == IF trackScans THEN (handleGen + 1) % MaxGen ELSE handleGen

\* the listing recorded for a scan that returned found
Listed(found) == IF trackScans THEN found ELSE listing

Handle(dev, gen) ==
    [idVendor |-> dev.idVendor, idProduct |-> dev.idProduct,
     bus |-> dev.bus, address |-> dev.address, gen |-> gen]

\* usb.core.find(find_all=True, idVendor=VENDOR_ID): the handles found, or the
\* exception the USB stack raises when the bus cannot be scanned.
NoBackendError == [type |-> "NoBackendError", errno |-> 0, msg |-> <<>>]
ScanOutcomes ==
    {[exc |-> NoExc, found |-> {Handle(dev, NextGen) : dev \in S}] : S \in SUBSET Universe}
    \cup {[exc |-> e, found |-> {}] : e \in {ErrIo, NoBackendError}}

(***************************************************************************)
(* X56UsbBackend.refresh                                                   *)
(***************************************************************************)
KeyLess(a, b) == a.bus < b.bus \/ (a.bus = b.bus /\ a.address < b.address)

RECURSIVE SortDevices(_)
SortDevices(S) ==
    IF S = {} THEN <<>>
    ELSE LET m == CHOOSE d \in S : \A e \in S \ {d} : KeyLess(d, e)
         IN  <<m>> \o SortDevices(S \ {m})

DeviceInfo(index, dev) ==
    [id |-> index,
     name |-> ProductName(dev.idProduct),
     bus |-> dev.bus,
     address |-> dev.address,
     product_id |-> dev.idProduct]

\* a refresh that keeps the handle it holds for a device that is still there
refreshKeepsKnown(found) ==
    LET filtered == SortDevices({dev \in found : dev.idProduct \in SUPPORTED_PRODUCTS})
        known(dev) == {old \in listing : old.bus = dev.bus /\ old.address = dev.address}
    IN  [index \in 1..Len(filtered) |->
            [info |-> DeviceInfo(index, filtered[index]),
             device |-> IF known(filtered[index]) # {}
                        THEN CHOOSE old \in known(filtered[index]) : TRUE
                        ELSE filtered[index]]]

\* the entries refresh builds from a scan result
refresh(found) ==
    LET filtered == SortDevices({dev \in found : dev.idProduct \in SUPPORTED_PRODUCTS})
    IN  [index \in 1..Len(filtered) |->
            [info |-> DeviceInfo(index, filtered[index]), device |-> filtered[index]]]

Infos(ents) == [i \in 1..Len(ents) |-> ents[i].info]

(***************************************************************************)
(* X56UsbBackend.set_rgb_many, up to the resolution of the targets         *)
(***************************************************************************)
\* a validation that lets every color through
_validate_rgbNone(red, green, blue) == NoExc

_validate_rgb(red, green, blue) ==
    IF \E value \in {red, green, blue} : value < 0 \/ value > 255
    THEN BackendError(<<"RGB values must be in range 0-255.">>)
    ELSE NoExc

\* a resolution that takes 0 for an ordinary id
ResolveTargetsNoSentinel(ents, device_ids) ==
    SelectSeq(ents, LAMBDA entry : entry.info.id \in Range(device_ids))

ResolveTargets(ents, device_ids) ==
    IF 0 \in Range(device_ids)
    THEN ents
    ELSE SelectSeq(ents, LAMBDA entry : entry.info.id \in Range(device_ids))

\* preconditions that scan the bus before they validate the color
PreconditionsScanFirst(ents, device_ids, red, green, blue, scan) ==
    LET invalid == _validate_rgb(red, green, blue)
        refreshed == (ents = <<>>)
        now == IF refreshed /\ scan.exc = NoExc THEN refresh(scan.found) ELSE ents
        targets0 == ResolveTargets(now, device_ids)
        out(e, en, t, sc) == [exc |-> e, entries |-> en, targets |-> t, scanned |-> sc]
    IN  IF refreshed /\ scan.exc # NoExc THEN out(scan.exc, ents, <<>>, TRUE)
        ELSE IF invalid # NoExc THEN out(invalid, now, <<>>, refreshed)
        ELSE IF now = <<>>
             THEN out(BackendError(<<"No compatible X-56 devices found.">>), now, <<>>, refreshed)
        ELSE IF device_ids = <<>>
             THEN out(BackendError(<<"No target device selected.">>), now, <<>>, refreshed)
        ELSE IF targets0 = <<>>
             THEN out(BackendError(<<"Selected device ids were not found.">>), now, <<>>, refreshed)
        ELSE out(NoExc, now, targets0, refreshed)

\* The outcome of lines 90-108 from the entries held at the call, the
\* arguments and what a bus scan would give: the exception raised (NoExc when
\* the preconditions pass), the entries held afterwards, the targets, and
\* whether the bus was scanned.
Preconditions(ents, device_ids, red, green, blue, scan) ==
    LET invalid == _validate_rgb(red, green, blue)
        refreshed == (ents = <<>>)
        now == IF refreshed /\ scan.exc = NoExc THEN refresh(scan.found) ELSE ents
        targets0 == ResolveTargets(now, device_ids)
        out(e, en, t, sc) == [exc |-> e, entries |-> en, targets |-> t, scanned |-> sc]
    IN  IF invalid # NoExc THEN out(invalid, ents, <<>>, FALSE)
        ELSE IF refreshed /\ scan.exc # NoExc THEN out(scan.exc, ents, <<>>, TRUE)
        ELSE IF now = <<>>
             THEN out(BackendError(<<"No compatible X-56 devices found.">>), now, <<>>, refreshed)
        ELSE IF device_ids = <<>>
             THEN out(BackendError(<<"No target device selected.">>), now, <<>>, refreshed)
        ELSE IF targets0 = <<>>
             THEN out(BackendError(<<"Selected device ids were not found.">>), now, <<>>, refreshed)
        ELSE out(NoExc, now, targets0, refreshed)

\* "Device {id} ({name}): {exc}"
FailureLine(info, e) == <<"Device ", info.id, " (", info.name, "): ">> \o e.msg

(***************************************************************************)
(* X56UsbBackend._set_rgb_single and _send_rgb_with_setup                  *)
(***************************************************************************)
\* a retry table with the second and third combinations exchanged
AttemptsReordered ==
    << [interfaces |-> <<2, 0>>, windex |-> WINDEX_INTERFACE_2],
       [interfaces |-> <<2>>, windex |-> WINDEX_INTERFACE_2],
       [interfaces |-> <<2, 0>>, windex |-> 2],
       [interfaces |-> <<2>>, windex |-> 2] >>

Attempts ==
    << [interfaces |-> <<2, 0>>, windex |-> WINDEX_INTERFACE_2],
       [interfaces |-> <<2, 0>>, windex |-> 2],
       [interfaces |-> <<2>>, windex |-> WINDEX_INTERFACE_2],
       [interfaces |-> <<2>>, windex |-> 2] >>

\* a pipe test that looks at the errno alone
IsPipeErrnoOnly(e) == e.errno = 32

_is_pipe_error(e) ==
    IF e.errno = 32 THEN TRUE ELSE Contains(Lower(e.msg), PipeErrorText)

\* a USBError that leaves _send_rgb_with_setup as it is
WrapNothing(e) == e

\* lines 205-211: a USBError leaves _send_rgb_with_setup as a BackendError
\* carrying its stripped text; any other exception leaves it as it is.
WrapUsbError(e) ==
    IF e.type = "USBError"
    THEN LET details == Strip(e.msg)
         IN  IF details # <<>>
             THEN BackendError(<<"USB transfer failed (", details, ").">>)
             ELSE BackendError(<<"USB transfer failed.">>)
    ELSE e

\* One USB call of an attempt, as recorded in the attempt's log: the call, the
\* interface (or wValue), the wIndex of a control transfer, the exception it
\* raised (NoExc when it succeeded).  The log holds the calls that act on an
\* interface or send a packet: detach, claim, control transfer, release, attach.
Ev(op, a, b, res) == [op |-> op, a |-> a, b |-> b, res |-> res]

(***************************************************************************)
(* State                                                                   *)
(***************************************************************************)
VARIABLES
    entries,          \* X56UsbBackend._entries
    devices,          \* MainWindow._devices
    detected_keys,    \* MainWindow._detected_keys
    shown_error,      \* the text last passed to MainWindow._show_error
    escaped,          \* the exception that left an event handler uncaught
    pc,               \* where the running set_rgb_many call stands
    args,             \* its arguments device_ids, red, green, blue
    targets,          \* its resolved targets
    tIdx,             \* index of the target being processed
    applied,          \* set_rgb_many's applied
    failures,         \* set_rgb_many's failures
    attempt,          \* index into Attempts of the running attempt
    last_error,       \* _set_rgb_single's last_error
    ifIdx,            \* position of the interface loop (claim loop, release loop)
    attached_ifaces,  \* _send_rgb_with_setup's attached_ifaces
    exc,              \* the exception in flight in the running attempt
    log,              \* the USB calls of the running (or last) attempt, in order
    scanned,          \* the call scanned the bus
    devResults,       \* the attempts made for the current device and how each ended
    attempted,        \* ids of the targets whose transfer sequence was begun, in order
    failed,           \* ids of the targets whose four attempts all failed, in order
    result,           \* how the call ended
    otherExc,         \* the USB stack may raise exceptions that are no USBError
    calIn,            \* the arguments of a call of the calibration functions
    calOut,           \* what the call returned
    profiles,         \* CalibrationStore._profiles
    saved,            \* the "profiles" object of calibration.json
    storeOut,         \* the last call of the store and how it ended
    _effect_sessions, \* MainWindow._effect_sessions, in the order of the dict
    default_profiles, \* ProfileStore._profiles
    dispatched,       \* the set_rgb_many calls of the last handler, in order
    handler,          \* the last handler of the window that ran
    profileIn,        \* the "profiles" object of profiles.json at the start
    profileOut,       \* the last call of the profile store and what it returned
    dialog            \* the calibration dialog: its device list and its last preview

engineVars == <<entries, devices, detected_keys, shown_error, escaped, pc, args, targets,
                tIdx, applied, failures, attempt, last_error, ifIdx,
                attached_ifaces, exc, log, scanned, devResults, attempted, failed,
                result, otherExc, listing, handleGen, trackScans>>

calVars == <<calIn, calOut>>

\* the state the device-control engine and refresh_devices never touch
storeVars == <<profiles, saved, storeOut>>
fxVars == <<_effect_sessions, default_profiles, dispatched, handler>>
profVars == <<profileIn, profileOut>>
dlgVars == <<dialog>>
frameVars == <<calVars, storeVars, fxVars, profVars, dlgVars>>

vars == <<engineVars, frameVars>>

windowVars == <<devices, detected_keys, shown_error, escaped>>
deviceVars == <<attempt, last_error, devResults>>
attemptVars == <<ifIdx, attached_ifaces, exc, log>>
batchVars == <<args, targets, tIdx, applied, failures, scanned, attempted, failed, result>>
scanVars == <<listing, handleGen>>
envVars == <<otherExc, trackScans>>

NoArgs == [device_ids |-> <<>>, red |-> 0, green |-> 0, blue |-> 0]
NoResult == [kind |-> "none", exc |-> NoExc, applied |-> 0, failures |-> <<>>]

\* the state of a backend with no call running
CallIdle ==
    /\ pc = "idle"
    /\ args = NoArgs
    /\ targets = <<>>
    /\ tIdx = 0
    /\ applied = 0
    /\ failures = <<>>
    /\ attempt = 0
    /\ last_error = NoExc
    /\ ifIdx = 0
    /\ attached_ifaces = <<>>
    /\ exc = NoExc
    /\ log = <<>>
    /\ scanned = FALSE
    /\ devResults = <<>>
    /\ attempted = <<>>
    /\ failed = <<>>
    /\ result = NoResult

\* no call of the calibration functions is recorded
NoCalIn ==
    [color |-> <<0, 0, 0>>, cal |-> ColorCalibration(CHANNELS, 100, 100, 100, NoDict),
     target_name |-> None, has_entry |-> FALSE]
NoCalOut ==
    [op |-> "none", rgb |-> <<0, 0, 0>>, name |-> None,
     cal |-> ColorCalibration(CHANNELS, 100, 100, 100, NoDict),
     packet |-> <<>>, apply_packet |-> <<>>]

\* no call of the calibration store is recorded
NoStoreOut ==
    [op |-> "none", key |-> <<>>, legacy_key |-> <<>>, legacy_only |-> FALSE,
     found |-> FALSE, cal |-> ColorCalibration(CHANNELS, 100, 100, 100, NoDict),
     exc |-> NoExc]

CalIdle ==
    /\ calIn = NoCalIn
    /\ calOut = NoCalOut

\* a store that found no calibration.json
StoreIdle ==
    /\ profiles = <<>>
    /\ saved = <<>>
    /\ storeOut = NoStoreOut

\* no session, no profiles.json, no handler has run
NoHandler == [op |-> "none", armed |-> {}]
FxIdle ==
    /\ _effect_sessions = <<>>
    /\ default_profiles = <<>>
    /\ dispatched = <<>>
    /\ handler = NoHandler

\* the absent value of an output field
NoProfile == [enabled |-> FALSE]

NoProfileOut ==
    [op |-> "none", product_id |-> 0, profile |-> NoProfile, given |-> NoProfile,
     exc |-> NoExc]

ProfIdle ==
    /\ profileIn = <<>>
    /\ profileOut = NoProfileOut

\* no dialog is open; picked holds the device of the last preview and
\* received the keys of the devices its call resolved
NoDialog == [open |-> FALSE, devices |-> <<>>, picked |-> <<>>, received |-> {}]

DlgIdle == dialog = NoDialog

FrameIdle == CalIdle /\ StoreIdle /\ FxIdle /\ ProfIdle /\ DlgIdle

\* X56UsbBackend.__init__ and the fields MainWindow.__init__ sets before its
\* first refresh
EngineIdle ==
    /\ entries = <<>>
    /\ devices = <<>>
    /\ detected_keys = {}
    /\ shown_error = <<>>
    /\ escaped = NoExc
    /\ listing = {}
    /\ handleGen = 0
    /\ CallIdle

InitCommon == EngineIdle /\ FrameIdle

Init == InitCommon /\ otherExc = FALSE /\ trackScans = FALSE

InitExc == InitCommon /\ otherExc = TRUE /\ trackScans = FALSE

\* the handles of one scan are told from those of another
InitRefresh == InitCommon /\ otherExc = FALSE /\ trackScans = TRUE

(***************************************************************************)
(* The inputs callers pass                                                 *)
(***************************************************************************)
\* session ids a selector may hold: the sentinel 0, every id an enumeration
\* can assign, and one id no enumeration assigns
SelectorIds == 0..(MaxDevices + 1)

RECURSIVE SeqsUpTo(_, _)
SeqsUpTo(S, n) ==
    IF n = 0 THEN {<<>>}
    ELSE SeqsUpTo(S, n - 1) \cup {Append(s, x) : s \in {t \in SeqsUpTo(S, n - 1) : Len(t) = n - 1}, x \in S}

Selectors == SeqsUpTo(SelectorIds, MaxSelLen)

\* colors: one in range, and one out of range in each channel
Colors == {<<255, 128, 0>>, <<256, 0, 0>>, <<0, -1, 0>>, <<0, 0, 300>>}

\* What the USB calls of the try body may raise.  The code looks at the error
\* itself only after the apply transfer (pipe error or not) and when it words
\* the failure (text or no text): detach and claim raise the plain I/O error,
\* the color transfer a pipe error without text or the I/O error, the apply
\* transfer any of the three.
OtherFaults == IF otherExc THEN {OtherExc} ELSE {}
ClaimFaults == {ErrIo} \cup OtherFaults
ColorFaults == {ErrPipeErrno, ErrIo} \cup OtherFaults
ApplyFaults == USBErrors \cup OtherFaults

(***************************************************************************)
(* MainWindow.refresh_devices                                              *)
(***************************************************************************)
RefreshDevices(show_errors, scan) ==
    /\ pc = "idle"
    /\ escaped = NoExc
    /\ IF scan.exc = NoExc
       THEN /\ entries' = refresh(scan.found)
            /\ devices' = Infos(entries')
            /\ detected_keys' =
                   {<<devices'[i].product_id, devices'[i].bus, devices'[i].address>> :
                        i \in 1..Len(devices')}
            /\ listing' = Listed(scan.found)
            /\ handleGen' = NextGen
            /\ UNCHANGED <<shown_error, escaped>>
       ELSE \* refresh raised scan.exc; refresh_devices catches BackendError only
            /\ UNCHANGED <<entries, devices, detected_keys, scanVars>>
            /\ IF scan.exc.type = "BackendError"
               THEN /\ shown_error' = IF show_errors THEN scan.exc.msg ELSE shown_error
                    /\ UNCHANGED escaped
               ELSE /\ escaped' = scan.exc
                    /\ UNCHANGED shown_error
    /\ UNCHANGED <<pc, batchVars, deviceVars, attemptVars, envVars, frameVars>>

(***************************************************************************)
(* X56UsbBackend.set_rgb_many                                              *)
(***************************************************************************)
\* lines 90-108: validation, refresh when no entry is held, target resolution
SetRgbMany(device_ids, red, green, blue, scan) ==
    /\ pc = "idle"
    /\ escaped = NoExc
    /\ LET pre == Preconditions(entries, device_ids, red, green, blue, scan)
       IN  /\ entries' = pre.entries
           /\ scanned' = pre.scanned
           /\ args' = [device_ids |-> device_ids, red |-> red, green |-> green, blue |-> blue]
           /\ targets' = pre.targets
           /\ IF pre.scanned /\ scan.exc = NoExc
              THEN listing' = Listed(scan.found) /\ handleGen' = NextGen
              ELSE UNCHANGED scanVars
           /\ IF pre.exc = NoExc
              THEN /\ pc' = "loop"
                   /\ tIdx' = 1
                   /\ result' = NoResult
              ELSE /\ pc' = "done"
                   /\ tIdx' = 0
                   /\ result' = [NoResult EXCEPT !.kind = "raised", !.exc = pre.exc]
    /\ UNCHANGED <<applied, failures, attempted, failed, windowVars, deviceVars,
                   attemptVars, envVars, frameVars>>

\* lines 110-124: the head of the loop over the targets.  The selector is dead
\* once the targets are resolved and is dropped here, with the record of the
\* bus scan.
LoopHead ==
    /\ pc = "loop"
    /\ IF tIdx <= Len(targets)
       THEN /\ attempt' = 1
            /\ last_error' = NoExc
            /\ devResults' = <<>>
            /\ pc' = "attempt"
            /\ args' = [args EXCEPT !.device_ids = <<>>]
            /\ scanned' = FALSE
            /\ attempted' = Append(attempted, targets[tIdx].info.id)
            /\ UNCHANGED result
       ELSE /\ result' = [kind |-> "returned", exc |-> NoExc,
                          applied |-> applied, failures |-> failures]
            /\ pc' = "done"
            /\ UNCHANGED <<deviceVars, args, scanned, attempted>>
    /\ UNCHANGED <<entries, targets, tIdx, applied, failures, failed,
                   windowVars, attemptVars, envVars, frameVars, scanVars>>

(***************************************************************************)
(* X56UsbBackend._send_rgb_with_setup, one USB call per step               *)
(***************************************************************************)
interfaces == Attempts[attempt].interfaces
windex == Attempts[attempt].windex
\* lines 110 and 116-123: the packets of the transfers; the callers of the
\* engine specifications pass no calibration
rgb_packet ==
    LET out == DeviceColor(targets[tIdx].info.id, args.red, args.green, args.blue,
                           NoCalibrations, None)
    IN  build_rgb_packet(out[1], out[2], out[3])
apply_packet == build_apply_packet

\* lines 169-175: attached_ifaces = [], set_configuration with its USBError
\* swallowed
SetConfiguration(res) ==
    /\ pc = "attempt"
    /\ res \in {NoExc, ErrIo} \cup OtherFaults
    /\ attached_ifaces' = <<>>
    /\ log' = <<>>
    /\ ifIdx' = 1
    /\ IF res.type \in {"none", "USBError"}
       THEN exc' = NoExc /\ pc' = "claim"
       ELSE exc' = res /\ pc' = "finally"
    /\ UNCHANGED <<entries, batchVars, windowVars, deviceVars, envVars, frameVars, scanVars>>

\* is_kernel_driver_active: its answer, or the exception it raises
KernelAnswers ==
    {[exc |-> NoExc, active |-> b] : b \in BOOLEAN}
    \cup {[exc |-> e, active |-> FALSE] : e \in {NotImplemented, ErrIo}}

\* _kernel_active: the driver's answer, False when the query raises
_kernel_active(answer) ==
    IF answer.exc.type \in {"NotImplementedError", "USBError"} THEN FALSE ELSE answer.active

\* lines 177-181, one interface: the kernel driver is detached when it is
\* active, then the interface is claimed
ClaimInterface(answer, detach, claim) ==
    /\ pc = "claim"
    /\ answer \in KernelAnswers
    /\ detach \in {NoExc} \cup ClaimFaults
    /\ claim \in {NoExc} \cup ClaimFaults
    /\ LET iface == interfaces[ifIdx]
           active == _kernel_active(answer)
       IN  IF active /\ detach # NoExc
           THEN /\ claim = NoExc
                /\ log' = Append(log, Ev("detach_kernel_driver", iface, 0, detach))
                /\ exc' = WrapUsbError(detach)
                /\ pc' = "finally"
                /\ ifIdx' = 1
                /\ UNCHANGED attached_ifaces
           ELSE /\ (~active => detach = NoExc)
                /\ attached_ifaces' =
                       IF active THEN Append(attached_ifaces, iface) ELSE attached_ifaces
                /\ log' = (IF active
                           THEN Append(log, Ev("detach_kernel_driver", iface, 0, NoExc))
                           ELSE log)
                          \o <<Ev("claim_interface", iface, 0, claim)>>
                /\ exc' = WrapUsbError(claim)
                /\ IF claim # NoExc
                   THEN pc' = "finally" /\ ifIdx' = 1
                   ELSE IF ifIdx < Len(interfaces)
                        THEN pc' = "claim" /\ ifIdx' = ifIdx + 1
                        ELSE pc' = "color" /\ ifIdx' = ifIdx
    /\ UNCHANGED <<entries, batchVars, windowVars, deviceVars, envVars, frameVars, scanVars>>

\* a color transfer whose failure leaves the attempt without the release loop
ColorTransferNoRelease(res) ==
    /\ pc = "color"
    /\ res \in {NoExc} \cup ColorFaults
    /\ log' = Append(log, Ev("ctrl_transfer", WVALUE_RGB, windex, res))
    /\ exc' = WrapUsbError(res)
    /\ ifIdx' = 1
    /\ pc' = IF res = NoExc THEN "apply" ELSE "attempt_end"
    /\ UNCHANGED <<attached_ifaces, entries, batchVars, windowVars, deviceVars, envVars, frameVars, scanVars>>

\* lines 183-190: the color transfer
ColorTransfer(res) ==
    /\ pc = "color"
    /\ res \in {NoExc} \cup ColorFaults
    /\ log' = Append(log, Ev("ctrl_transfer", WVALUE_RGB, windex, res))
    /\ exc' = WrapUsbError(res)
    /\ ifIdx' = 1
    /\ pc' = IF res = NoExc THEN "apply" ELSE "finally"
    /\ UNCHANGED <<attached_ifaces, entries, batchVars, windowVars, deviceVars, envVars, frameVars, scanVars>>

\* an apply transfer that swallows every USBError
ApplyTransferSwallowsAll(res) ==
    /\ pc = "apply"
    /\ res \in {NoExc} \cup ApplyFaults
    /\ log' = Append(log, Ev("ctrl_transfer", WVALUE_APPLY, windex, res))
    /\ exc' = IF res.type = "USBError" THEN NoExc ELSE WrapUsbError(res)
    /\ ifIdx' = 1
    /\ pc' = "finally"
    /\ UNCHANGED <<attached_ifaces, entries, batchVars, windowVars, deviceVars, envVars, frameVars, scanVars>>

\* lines 191-204: the apply transfer, a pipe error of it swallowed
ApplyTransfer(res) ==
    /\ pc = "apply"
    /\ res \in {NoExc} \cup ApplyFaults
    /\ log' = Append(log, Ev("ctrl_transfer", WVALUE_APPLY, windex, res))
    /\ exc' = IF res.type = "USBError" /\ _is_pipe_error(res)
              THEN NoExc
              ELSE WrapUsbError(res)
    /\ ifIdx' = 1
    /\ pc' = "finally"
    /\ UNCHANGED <<attached_ifaces, entries, batchVars, windowVars, deviceVars, envVars, frameVars, scanVars>>

\* lines 212-222, one interface: release, then reattach when this attempt
\* detached the driver; a USBError of either is swallowed
\* a finally block that reattaches the driver ahead of the release
ReleaseInterfaceAttachFirst(release, attach) ==
    /\ pc = "finally"
    /\ release \in {NoExc, ErrIo}
    /\ attach \in {NoExc, ErrIo}
    /\ LET iface == interfaces[ifIdx]
           reattach == iface \in Range(attached_ifaces)
       IN  /\ (~reattach => attach = NoExc)
           /\ log' = log \o (IF reattach
                              THEN <<Ev("attach_kernel_driver", iface, 0, attach)>>
                              ELSE <<>>)
                         \o <<Ev("release_interface", iface, 0, release)>>
    /\ IF ifIdx < Len(interfaces)
       THEN pc' = "finally" /\ ifIdx' = ifIdx + 1
       ELSE pc' = "attempt_end" /\ ifIdx' = ifIdx
    /\ UNCHANGED <<attached_ifaces, exc, entries, batchVars, windowVars, deviceVars, envVars, frameVars, scanVars>>

ReleaseInterface(release, attach) ==
    /\ pc = "finally"
    /\ release \in {NoExc, ErrIo}
    /\ attach \in {NoExc, ErrIo}
    /\ LET iface == interfaces[ifIdx]
           reattach == iface \in Range(attached_ifaces)
       IN  /\ (~reattach => attach = NoExc)
           /\ log' = Append(log, Ev("release_interface", iface, 0, release))
                     \o (IF reattach
                         THEN <<Ev("attach_kernel_driver", iface, 0, attach)>>
                         ELSE <<>>)
    /\ IF ifIdx < Len(interfaces)
       THEN pc' = "finally" /\ ifIdx' = ifIdx + 1
       ELSE pc' = "attempt_end" /\ ifIdx' = ifIdx
    /\ UNCHANGED <<attached_ifaces, exc, entries, batchVars, windowVars, deviceVars, envVars, frameVars, scanVars>>

(***************************************************************************)
(* X56UsbBackend._set_rgb_single and the except clause of set_rgb_many     *)
(***************************************************************************)
AttemptResult(e) ==
    [interfaces |-> interfaces, windex |-> windex, ok |-> (e = NoExc)]

\* line 153: the attempt succeeded, _set_rgb_single returns and set_rgb_many
\* counts the device (line 125)
SingleReturns ==
    /\ applied' = applied + 1
    /\ tIdx' = tIdx + 1
    /\ pc' = "loop"
    /\ UNCHANGED <<last_error, attempt, failures, result>>

\* lines 154-155 with a combination left: the error is kept and the next
\* combination is tried
SingleRetries ==
    /\ last_error' = exc
    /\ attempt' = attempt + 1
    /\ pc' = "attempt"
    /\ UNCHANGED <<failures, tIdx, applied, result>>

\* a failed device that is counted as applied too
DeviceFailsCounted ==
    /\ last_error' = exc
    /\ failures' = Append(failures, FailureLine(targets[tIdx].info, last_error'))
    /\ applied' = applied + 1
    /\ tIdx' = tIdx + 1
    /\ pc' = "loop"
    /\ UNCHANGED <<attempt, result>>

\* a failed device that ends the loop over the targets
DeviceFailsBreaks ==
    /\ last_error' = exc
    /\ failures' = Append(failures, FailureLine(targets[tIdx].info, last_error'))
    /\ tIdx' = Len(targets) + 1
    /\ pc' = "loop"
    /\ UNCHANGED <<attempt, applied, result>>

\* lines 154-158 after the last combination: last_error is raised, and
\* set_rgb_many records the device in failures (lines 126-127)
DeviceFails ==
    /\ last_error' = exc
    /\ failures' = Append(failures, FailureLine(targets[tIdx].info, last_error'))
    /\ tIdx' = tIdx + 1
    /\ pc' = "loop"
    /\ UNCHANGED <<attempt, applied, result>>

\* an exception that is no BackendError meets no handler in _set_rgb_single
\* nor in set_rgb_many
Propagates ==
    /\ result' = [NoResult EXCEPT !.kind = "raised", !.exc = exc]
    /\ pc' = "done"
    /\ UNCHANGED <<last_error, attempt, failures, tIdx, applied>>

\* the attempt has left _send_rgb_with_setup
AttemptEnd ==
    /\ pc = "attempt_end"
    /\ devResults' = Append(devResults, AttemptResult(exc))
    /\ failed' = IF exc # NoExc /\ Len(devResults') = Len(Attempts)
                 THEN Append(failed, targets[tIdx].info.id)
                 ELSE failed
    /\ IF exc = NoExc THEN SingleReturns
       ELSE IF exc.type # "BackendError" THEN Propagates
       ELSE IF attempt < Len(Attempts) THEN SingleRetries
       ELSE DeviceFails
    /\ UNCHANGED <<entries, args, targets, scanned, attempted,
                   windowVars, attemptVars, envVars, frameVars, scanVars>>

\* the caller has the result; the backend is idle again
Finish ==
    /\ pc = "done"
    /\ pc' = "idle"
    /\ args' = NoArgs
    /\ targets' = <<>>
    /\ tIdx' = 0
    /\ applied' = 0
    /\ failures' = <<>>
    /\ attempt' = 0
    /\ last_error' = NoExc
    /\ ifIdx' = 0
    /\ attached_ifaces' = <<>>
    /\ exc' = NoExc
    /\ log' = <<>>
    /\ scanned' = FALSE
    /\ devResults' = <<>>
    /\ attempted' = <<>>
    /\ failed' = <<>>
    /\ result' = NoResult
    /\ UNCHANGED <<entries, windowVars, envVars, frameVars, scanVars>>

(***************************************************************************)
(* Calls of the calibration functions, each with arguments drawn at the    *)
(* start.  A gain is held in hundredths.                                   *)
(***************************************************************************)
ChannelValues == {-40, 0, 128, 255, 300}

TestColors ==
    {<<r, g, b>> : r \in ChannelValues, g \in ChannelValues, b \in ChannelValues}
    \cup {CALIBRATION_COLORS[i].rgb : i \in 1..Len(CALIBRATION_COLORS)}

\* ColorCalibration(): the defaults of the dataclass
CalDefault == ColorCalibration(CHANNELS, 100, 100, 100, NoDict)
CalEmpty == ColorCalibration(CHANNELS, 100, 100, 100, Dict(<<>>))
CalRed ==
    ColorCalibration(CHANNELS, 100, 100, 100,
                     Dict([k \in {"Red"} |-> ColorOffset(5, 0, -3)]))
CalWide ==
    ColorCalibration(<<"B", "G", "R">>, 150, 50, 225,
                     Dict([k \in {"Green", "White"} |->
                              IF k = "Green" THEN ColorOffset(-300, 300, 10)
                              ELSE ColorOffset(0, 0, 0)]))
CalPink ==
    ColorCalibration(<<"G", "R", "B">>, 100, 80, 100,
                     Dict([k \in {"Pink", "Blue"} |->
                              IF k = "Pink" THEN ColorOffset(1, -2, 3)
                              ELSE ColorOffset(0, 0, -7)]))

TestCalibrations == {CalDefault, CalEmpty, CalRed, CalWide, CalPink}

\* no target, the empty name, two palette names, a name outside the palette
TargetNames == {None, "", "Red", "Green", "Teal"}

CalInputs ==
    [color : TestColors, cal : TestCalibrations, target_name : TargetNames,
     has_entry : BOOLEAN]

InitCal ==
    /\ EngineIdle
    /\ otherExc = FALSE
    /\ trackScans = FALSE
    /\ calIn \in CalInputs
    /\ calOut = NoCalOut
    /\ StoreIdle
    /\ FxIdle
    /\ ProfIdle
    /\ DlgIdle

\* calibration.apply(red, green, blue, target_name)
CallApply ==
    /\ calOut.op = "none"
    /\ calOut' = [calOut EXCEPT
                     !.op = "apply",
                     !.rgb = apply(calIn.cal, calIn.color[1], calIn.color[2],
                                   calIn.color[3], calIn.target_name)]
    /\ UNCHANGED <<engineVars, calIn, storeVars, fxVars, profVars, dlgVars>>

\* ColorCalibration.closest_target_name(red, green, blue)
CallClosest ==
    /\ calOut.op = "none"
    /\ calOut' = [calOut EXCEPT
                     !.op = "closest",
                     !.name = closest_target_name(calIn.color[1], calIn.color[2],
                                                  calIn.color[3])]
    /\ UNCHANGED <<engineVars, calIn, storeVars, fxVars, profVars, dlgVars>>

\* ColorCalibration.from_json(calibration.to_json())
CallRoundTrip ==
    /\ calOut.op = "none"
    /\ calOut' = [calOut EXCEPT !.op = "roundtrip", !.cal = from_json(to_json(calIn.cal))]
    /\ UNCHANGED <<engineVars, calIn, storeVars, fxVars, profVars, dlgVars>>

\* set_rgb_many's color for device 1, which has an entry in calibrations or
\* has none, with calibration_target
CallDeviceColor ==
    /\ calOut.op = "none"
    /\ calOut' = [calOut EXCEPT
                     !.op = "device",
                     !.rgb = DeviceColor(1, calIn.color[1], calIn.color[2], calIn.color[3],
                                         IF calIn.has_entry
                                         THEN [id \in {1} |-> calIn.cal]
                                         ELSE NoCalibrations,
                                         calIn.target_name)]
    /\ UNCHANGED <<engineVars, calIn, storeVars, fxVars, profVars, dlgVars>>

\* usb_backend.py lines 90 and 116-123: set_rgb_many validates the color it
\* is given, then builds the color packet of device 1 from the color the
\* calibration of the device makes of it; a color that fails the validation
\* raises before any packet is built
SetRgbPacket(red, green, blue, calibrations, calibration_target) ==
    IF _validate_rgb(red, green, blue) # NoExc
    THEN [calOut EXCEPT !.op = "rejected"]
    ELSE LET out == DeviceColor(1, red, green, blue, calibrations, calibration_target)
         IN  [calOut EXCEPT !.op = "packet", !.rgb = out,
                            !.packet = build_rgb_packet(out[1], out[2], out[3])]

CallSetRgbPacket ==
    /\ calOut.op = "none"
    /\ calOut' = SetRgbPacket(calIn.color[1], calIn.color[2], calIn.color[3],
                              IF calIn.has_entry
                              THEN [id \in {1} |-> calIn.cal]
                              ELSE NoCalibrations,
                              calIn.target_name)
    /\ UNCHANGED <<engineVars, calIn, storeVars, fxVars, profVars, dlgVars>>

\* protocol.py: build_rgb_packet(red, green, blue) and build_apply_packet()
CallBuildPackets ==
    /\ calOut.op = "none"
    /\ calOut' = [calOut EXCEPT
                     !.op = "build",
                     !.packet = build_rgb_packet(calIn.color[1], calIn.color[2],
                                                 calIn.color[3]),
                     !.apply_packet = build_apply_packet]
    /\ UNCHANGED <<engineVars, calIn, storeVars, fxVars, profVars, dlgVars>>

NextCal ==
    \/ CallApply
    \/ CallClosest
    \/ CallRoundTrip
    \/ CallDeviceColor
    \/ CallSetRgbPacket
    \/ CallBuildPackets

\* the calibration functions, each called once on arguments of CalInputs
SpecCal == InitCal /\ [][NextCal]_vars

(***************************************************************************)
(* calibration.py: CalibrationStore.  A key is the sequence of its         *)
(* characters.                                                             *)
(***************************************************************************)
HexDigits == <<"0","1","2","3","4","5","6","7","8","9","a","b","c","d","e","f">>

\* the digits of n >= 0 in this base, most significant first
RECURSIVE Digits(_, _)
Digits(n, base) ==
    IF n < base THEN <<HexDigits[n + 1]>>
    ELSE Digits(n \div base, base) \o <<HexDigits[(n % base) + 1]>>

\* format(n, "04x")
RECURSIVE ZeroPad(_, _)
ZeroPad(s, width) == IF Len(s) >= width THEN s ELSE ZeroPad(<<"0">> \o s, width)

Hex04(n) == ZeroPad(Digits(n, 16), 4)

\* str(n)
Str(n) == Digits(n, 10)

key_for_device(device) == Hex04(device.product_id)

_legacy_key_for_device(device) ==
    Hex04(device.product_id) \o <<":">> \o Str(device.bus) \o <<":">> \o Str(device.address)

\* d with key k set to v
DictSet(d, k, v) == [x \in DOMAIN d \cup {k} |-> IF x = k THEN v ELSE d[x]]

\* d without key k
DictDel(d, k) == [x \in DOMAIN d \ {k} |-> d[x]]

\* lines 185-189: what _save writes
Payload(profs) == [k \in DOMAIN profs |-> to_json(profs[k])]

\* lines 166-183: what _load reads back
Loaded(file) == [k \in DOMAIN file |-> from_json(file[k])]

OSError == [type |-> "OSError", errno |-> 0, msg |-> <<>>]

\* the devices the window knows: the infos of an enumeration that finds two
\* joysticks and a throttle
StoreDevices ==
    Range(Infos(refresh({PhysicalDevice(1), PhysicalDevice(2), PhysicalDevice(3)})))

StoreKeys ==
    {key_for_device(dev) : dev \in StoreDevices}
    \cup {_legacy_key_for_device(dev) : dev \in StoreDevices}

StoreCalibrations == {CalRed, CalPink}

\* the "profiles" objects calibration.json may hold at the start
StoreFiles ==
    UNION {[keys -> {to_json(cal) : cal \in StoreCalibrations}] : keys \in SUBSET StoreKeys}

InitStore ==
    /\ EngineIdle
    /\ otherExc = FALSE
    /\ trackScans = FALSE
    /\ CalIdle
    /\ saved \in StoreFiles
    /\ profiles = Loaded(saved)
    /\ storeOut = NoStoreOut
    /\ FxIdle
    /\ ProfIdle
    /\ DlgIdle

StoreCall(op, device) ==
    [NoStoreOut EXCEPT !.op = op, !.key = key_for_device(device),
                       !.legacy_key = _legacy_key_for_device(device),
                       !.legacy_only = /\ key_for_device(device) \notin DOMAIN profiles
                                       /\ _legacy_key_for_device(device) \in DOMAIN profiles]

\* _save with the outcome of write_text: the file is written, or OSError
\* leaves the caller
Save(call, write) ==
    /\ saved' = IF write = NoExc THEN Payload(profiles') ELSE saved
    /\ storeOut' = [call EXCEPT !.exc = write]

\* a lookup that prefers the entry of the device's bus and address
get_for_deviceLegacyFirst(device, write) ==
    LET key == key_for_device(device)
        legacy_key == _legacy_key_for_device(device)
        call == StoreCall("get", device)
    IN  /\ storeOut' = IF legacy_key \in DOMAIN profiles
                       THEN [call EXCEPT !.found = TRUE, !.cal = profiles[legacy_key]]
                       ELSE IF key \in DOMAIN profiles
                       THEN [call EXCEPT !.found = TRUE, !.cal = profiles[key]]
                       ELSE call
        /\ UNCHANGED <<profiles, saved>>

\* lines 191-203
get_for_device(device, write) ==
    LET key == key_for_device(device)
        legacy_key == _legacy_key_for_device(device)
        call == StoreCall("get", device)
    IN  IF key \in DOMAIN profiles
        THEN /\ storeOut' = [call EXCEPT !.found = TRUE, !.cal = profiles[key]]
             /\ UNCHANGED <<profiles, saved>>
        ELSE IF legacy_key \in DOMAIN profiles
        THEN /\ profiles' = DictSet(profiles, key, profiles[legacy_key])
             /\ Save([call EXCEPT !.found = (write = NoExc),
                                  !.cal = IF write = NoExc THEN profiles[legacy_key]
                                          ELSE call.cal],
                     write)
        ELSE /\ storeOut' = call
             /\ UNCHANGED <<profiles, saved>>

\* lines 205-213
set_for_device(device, calibration, write) ==
    /\ profiles' = DictDel(DictSet(profiles, key_for_device(device), calibration),
                           _legacy_key_for_device(device))
    /\ Save([StoreCall("set", device) EXCEPT !.cal = calibration], write)

\* lines 215-226
reset_for_device(device, write) ==
    LET key == key_for_device(device)
        legacy_key == _legacy_key_for_device(device)
        changed == key \in DOMAIN profiles \/ legacy_key \in DOMAIN profiles
    IN  /\ profiles' = DictDel(DictDel(profiles, key), legacy_key)
        /\ IF changed
           THEN Save(StoreCall("reset", device), write)
           ELSE /\ storeOut' = StoreCall("reset", device)
                /\ UNCHANGED saved

WriteOutcomes == {NoExc, OSError}

DoGetForDevice ==
    /\ \E device \in StoreDevices, write \in WriteOutcomes : get_for_device(device, write)
    /\ UNCHANGED <<engineVars, calVars, fxVars, profVars, dlgVars>>

DoSetForDevice ==
    /\ \E device \in StoreDevices, calibration \in StoreCalibrations, write \in WriteOutcomes :
          set_for_device(device, calibration, write)
    /\ UNCHANGED <<engineVars, calVars, fxVars, profVars, dlgVars>>

DoResetForDevice ==
    /\ \E device \in StoreDevices, write \in WriteOutcomes : reset_for_device(device, write)
    /\ UNCHANGED <<engineVars, calVars, fxVars, profVars, dlgVars>>

NextStore ==
    \/ DoGetForDevice
    \/ DoSetForDevice
    \/ DoResetForDevice

\* the calibration store, loaded from any file of StoreFiles
SpecStore == InitStore /\ [][NextStore]_vars

(***************************************************************************)
(* main_window.py: CalibrationDialog's handlers, each taken as one step    *)
(***************************************************************************)
\* lines 191-203 as a function of the store's dict: the dict after the
\* lookup, what the lookup returns and whether it saves
Lookup(profs, device) ==
    LET key == key_for_device(device)
        legacy_key == _legacy_key_for_device(device)
    IN  IF key \in DOMAIN profs
        THEN [profiles |-> profs, found |-> TRUE, cal |-> profs[key], saves |-> FALSE]
        ELSE IF legacy_key \in DOMAIN profs
        THEN [profiles |-> DictSet(profs, key, profs[legacy_key]), found |-> TRUE,
              cal |-> profs[legacy_key], saves |-> TRUE]
        ELSE [profiles |-> profs, found |-> FALSE,
              cal |-> ColorCalibration(CHANNELS, 100, 100, 100, NoDict), saves |-> FALSE]

\* a name of the dialog's target combo (lines 90-92) and the offsets its
\* spin boxes may hold (lines 131-138, 165-170)
DialogTargets == {"White"}
DialogOffsets == {ColorOffset(-255, 0, 255)}

\* the devices of the dialog's device combo: the two joysticks
DialogDevices == {dev \in StoreDevices : dev.product_id = PID_JOYSTICK}

\* what the write of a lookup may do: there is one when the lookup migrates
LookupWrites(device) ==
    IF Lookup(profiles, device).saves THEN WriteOutcomes ELSE {NoExc}

\* lines 176-180 and 187-191: the calibration of the device, or a new one,
\* with the offset of the target replaced, is stored for the device.  The
\* lookup's write (when it migrates) and the store's write may each fail,
\* which ends the handler with the exception.
StoreOffset(op, device, target_name, offset, write, write2) ==
    LET got == Lookup(profiles, device)
        call == StoreCall(op, device)
        updated == with_offset(got.cal, target_name, offset)
    IN  IF got.saves /\ write # NoExc
        THEN /\ profiles' = got.profiles
             /\ saved' = saved
             /\ storeOut' = [call EXCEPT !.exc = write]
        ELSE /\ profiles' = DictDel(DictSet(got.profiles, key_for_device(device), updated),
                                    _legacy_key_for_device(device))
             /\ saved' = IF write2 = NoExc THEN Payload(profiles')
                         ELSE IF got.saves THEN Payload(got.profiles)
                         ELSE saved
             /\ storeOut' = [call EXCEPT !.found = got.found, !.exc = write2]

\* lines 172-181
_save_profile ==
    /\ \E device \in DialogDevices, target_name \in DialogTargets, offset \in DialogOffsets :
          \E write \in LookupWrites(device), write2 \in WriteOutcomes :
             StoreOffset("save_profile", device, target_name, offset, write, write2)
    /\ UNCHANGED <<engineVars, calVars, fxVars, profVars, dlgVars>>

\* lines 183-193
_reset_profile ==
    /\ \E device \in DialogDevices, target_name \in DialogTargets :
          \E write \in LookupWrites(device), write2 \in WriteOutcomes :
             StoreOffset("reset_profile", device, target_name, ColorOffset(0, 0, 0),
                         write, write2)
    /\ UNCHANGED <<engineVars, calVars, fxVars, profVars, dlgVars>>

\* lines 195-207: the calibration handed to the preview callback, which
\* passes it to set_rgb_many (lines 850-863); storeOut.cal is that calibration
_preview_target ==
    /\ \E device \in DialogDevices, target_name \in DialogTargets, offset \in DialogOffsets :
          \E write \in LookupWrites(device) :
             LET got == Lookup(profiles, device)
                 call == StoreCall("preview", device)
             IN  /\ profiles' = got.profiles
                 /\ saved' = IF got.saves /\ write = NoExc THEN Payload(got.profiles)
                             ELSE saved
                 /\ storeOut' = IF got.saves /\ write # NoExc
                                THEN [call EXCEPT !.exc = write]
                                ELSE [call EXCEPT
                                         !.found = TRUE,
                                         !.cal = with_offset(got.cal, target_name, offset)]
    /\ UNCHANGED <<engineVars, calVars, fxVars, profVars, dlgVars>>

\* a "profiles" entry of calibration.json with an offset under a name that
\* is none of the palette
RawTeal ==
    [to_json(CalRed) EXCEPT
        !.target_offsets = [k \in {"Red", "Teal"} |-> offset_to_json(ColorOffset(1, 2, 3))]]

\* calibration.json at the start: entries for the first joystick's product
\* and for the addresses of the two joysticks
DialogFiles ==
    UNION {[keys -> {to_json(CalPink), RawTeal}] :
              keys \in SUBSET {<<"2", "2", "2", "1">>,
                               <<"2", "2", "2", "1", ":", "2", ":", "1">>,
                               <<"2", "2", "2", "1", ":", "2", ":", "3">>}}

InitDialog ==
    /\ EngineIdle
    /\ otherExc = FALSE
    /\ trackScans = FALSE
    /\ CalIdle
    /\ saved \in DialogFiles
    /\ profiles = Loaded(saved)
    /\ storeOut = NoStoreOut
    /\ FxIdle
    /\ ProfIdle
    /\ DlgIdle

NextDialog ==
    \/ _save_profile
    \/ _reset_profile
    \/ _preview_target
    \/ DoGetForDevice
    \/ DoResetForDevice

\* the calibration dialog over the store loaded from any file of
\* DialogFiles, with the lookups of _build_calibration_map and the store's
\* reset
SpecDialog == InitDialog /\ [][NextDialog]_vars

(***************************************************************************)
(* effects.py.  A phase is held as a number of steps of 0.02 rad, a        *)
(* brightness in hundredths.                                               *)
(***************************************************************************)
EFFECT_OFF == "off"
EFFECT_RAINBOW == "rainbow"
EFFECT_MODES == <<EFFECT_OFF, EFFECT_RAINBOW>>

\* 2 * math.pi, in thousandths
TwoPi == 6283

\* colorsys.hsv_to_rgb(hue, 1.0, value) scaled to 0..255 and rounded; six
\* times the hue is held in thousandths
compute_effect_color(mode, base_rgb, phase, brightness) ==
    IF mode = EFFECT_RAINBOW
    THEN LET value == Max(5, Min(100, brightness))
             h6 == ((phase * 20 * 6 * 1000) \div TwoPi) % 6000
             i == h6 \div 1000
             f == h6 % 1000
             channel(x) == Clamp255((255 * value * x + 50000) \div 100000)
             v == channel(1000)
             p == channel(0)
             q == channel(1000 - f)
             t == channel(f)
         IN  CASE i = 0 -> <<v, t, p>>
               [] i = 1 -> <<q, v, p>>
               [] i = 2 -> <<p, v, t>>
               [] i = 3 -> <<p, q, v>>
               [] i = 4 -> <<t, p, v>>
               [] OTHER -> <<v, p, q>>
    ELSE base_rgb

\* a phase that advances by one step whatever the speed
next_phaseAnySpeed(phase, speed) == phase + 1

next_phase(phase, speed) ==
    LET step == Max(1, Min(20, speed))
    IN  phase + step

(***************************************************************************)
(* profile_store.py                                                        *)
(***************************************************************************)
DeviceDefaultProfile(enabled, red, green, blue, effect_enabled, effect_mode, effect_speed, effect_brightness) ==
    [enabled |-> enabled, name |-> "Default", red |-> red, green |-> green,
     blue |-> blue, effect_enabled |-> effect_enabled, effect_mode |-> effect_mode,
     effect_speed |-> effect_speed, effect_brightness |-> effect_brightness]

\* DeviceDefaultProfile()
DefaultProfile == DeviceDefaultProfile(FALSE, 255, 255, 255, FALSE, EFFECT_OFF, 3, 100)

\* f"{product_id:04x}" of the supported products
ProfileKeys == [product_id \in SUPPORTED_PRODUCTS |-> Hex04(product_id)]

ProfileStore_key(product_id) == ProfileKeys[product_id]

ProfileStore_get(profs, product_id) ==
    IF ProfileStore_key(product_id) \in DOMAIN profs
    THEN profs[ProfileStore_key(product_id)]
    ELSE DefaultProfile

\* ProfileStore.set, up to the write of profiles.json
ProfileStore_set(profs, product_id, profile) ==
    DictSet(profs, ProfileStore_key(product_id), profile)

(***************************************************************************)
(* profile_store.py: parsing profiles.json.  A JSON value is held with its *)
(* Python type t, its number n (a bool as 0 or 1, a float in tenths) and   *)
(* its text s, a sequence of characters.                                   *)
(***************************************************************************)
JInt(n) == [t |-> "int", n |-> n, s |-> <<>>]
JFloat(tenths) == [t |-> "float", n |-> tenths, s |-> <<>>]
JBool(b) == [t |-> "bool", n |-> IF b THEN 1 ELSE 0, s |-> <<>>]
JStr(s) == [t |-> "str", n |-> 0, s |-> s]
JNull == [t |-> "NoneType", n |-> 0, s |-> <<>>]
JList == [t |-> "list", n |-> 0, s |-> <<>>]

DecimalDigits == <<"0","1","2","3","4","5","6","7","8","9">>

IsDecimal(s) == Len(s) > 0 /\ \A i \in 1..Len(s) : s[i] \in Range(DecimalDigits)

RECURSIVE DecimalValue(_)
DecimalValue(s) ==
    IF Len(s) = 0 THEN 0
    ELSE 10 * DecimalValue(SubSeq(s, 1, Len(s) - 1))
         + (CHOOSE d \in 0..9 : DecimalDigits[d + 1] = s[Len(s)])

\* int(value): the integer, or the exception int() raises.  A float is cut
\* towards zero; a text is stripped and read as an optional sign and
\* decimal digits.
PyInt(value) ==
    CASE value.t \in {"int", "bool"} -> [exc |-> "none", n |-> value.n]
      [] value.t = "float" ->
            [exc |-> "none",
             n |-> IF value.n >= 0 THEN value.n \div 10 ELSE -((-value.n) \div 10)]
      [] value.t = "str" ->
            LET text == Strip(value.s)
                signed == Len(text) > 0 /\ text[1] \in {"-", "+"}
                digits == IF signed THEN SubSeq(text, 2, Len(text)) ELSE text
            IN  IF IsDecimal(digits)
                THEN [exc |-> "none",
                      n |-> IF signed /\ text[1] = "-" THEN -DecimalValue(digits)
                            ELSE DecimalValue(digits)]
                ELSE [exc |-> "ValueError", n |-> 0]
      [] OTHER -> [exc |-> "TypeError", n |-> 0]

\* bool(value)
PyBool(value) ==
    CASE value.t \in {"int", "bool", "float"} -> value.n # 0
      [] value.t = "str" -> Len(value.s) > 0
      [] OTHER -> FALSE

\* str(value)
PyStr(value) ==
    CASE value.t = "int" -> IF value.n < 0 THEN <<"-">> \o Str(-value.n) ELSE Str(value.n)
      [] value.t = "bool" -> IF value.n = 1 THEN <<"T","r","u","e">> ELSE <<"F","a","l","s","e">>
      [] value.t = "float" ->
            LET abs == IF value.n < 0 THEN -value.n ELSE value.n
            IN  (IF value.n < 0 THEN <<"-">> ELSE <<>>)
                \o Str(abs \div 10) \o <<".">> \o Str(abs % 10)
      [] value.t = "str" -> value.s
      [] value.t = "NoneType" -> <<"N","o","n","e">>
      [] OTHER -> <<"[","]">>

\* data.get(key, default)
Get(data, key, default) == IF key \in DOMAIN data THEN data[key] ELSE default

\* a clamp that keeps what it parsed
_clamp_rgbNoClamp(value) ==
    IF PyInt(value).exc \in {"TypeError", "ValueError"} THEN 255 ELSE PyInt(value).n

\* lines 108-113
_clamp_rgb(value) ==
    LET parsed == IF PyInt(value).exc \in {"TypeError", "ValueError"}
                  THEN 255
                  ELSE PyInt(value).n
    IN  Max(0, Min(255, parsed))

\* lines 116-121
_clamp_int(value, min_value, max_value, default) ==
    LET parsed == IF PyInt(value).exc \in {"TypeError", "ValueError"}
                  THEN default
                  ELSE PyInt(value).n
    IN  Max(min_value, Min(max_value, parsed))

\* the characters of the mode names
ModeText ==
    [mode \in Range(EFFECT_MODES) |->
        IF mode = EFFECT_OFF THEN <<"o","f","f">> ELSE <<"r","a","i","n","b","o","w">>]

\* lines 124-128
_effect_mode(value) ==
    LET mode == Lower(PyStr(value))
    IN  IF \E m \in Range(EFFECT_MODES) : ModeText[m] = mode
        THEN CHOOSE m \in Range(EFFECT_MODES) : ModeText[m] = mode
        ELSE EFFECT_OFF

\* lines 37-49; the objects read hold no "name", which leaves the name at
\* its default
DeviceDefaultProfile_from_json(data) ==
    DeviceDefaultProfile(PyBool(Get(data, "enabled", JBool(FALSE))),
                         _clamp_rgb(Get(data, "red", JInt(255))),
                         _clamp_rgb(Get(data, "green", JInt(255))),
                         _clamp_rgb(Get(data, "blue", JInt(255))),
                         PyBool(Get(data, "effect_enabled", JBool(FALSE))),
                         _effect_mode(Get(data, "effect_mode", JStr(ModeText[EFFECT_OFF]))),
                         _clamp_int(Get(data, "effect_speed", JInt(3)), 1, 20, 3),
                         _clamp_int(Get(data, "effect_brightness", JInt(100)), 5, 100, 100))

\* lines 64-84: file.ok is false for a file that is missing, unreadable, no
\* JSON or no object with an object under "profiles"; an entry whose value
\* is no object (isdict false) is skipped
ProfileStore_load(file) ==
    IF file.ok
    THEN LET kept == {key \in DOMAIN file.profiles : file.profiles[key].isdict}
         IN  [key \in kept |-> DeviceDefaultProfile_from_json(file.profiles[key].data)]
    ELSE <<>>

\* the objects a "profiles" entry may hold: nothing, values within the
\* ranges, values beyond them, values of the wrong type, texts for numbers
JsonProfiles ==
    {<<>>,
     [k \in {"enabled", "red", "green", "blue", "effect_enabled", "effect_mode",
             "effect_speed", "effect_brightness"} |->
        CASE k = "enabled" -> JBool(TRUE)
          [] k = "red" -> JInt(10)
          [] k = "green" -> JInt(0)
          [] k = "blue" -> JInt(255)
          [] k = "effect_enabled" -> JBool(TRUE)
          [] k = "effect_mode" -> JStr(<<"r","a","i","n","b","o","w">>)
          [] k = "effect_speed" -> JInt(20)
          [] OTHER -> JInt(5)],
     [k \in {"enabled", "red", "green", "blue", "effect_mode", "effect_speed",
             "effect_brightness"} |->
        CASE k = "enabled" -> JInt(1)
          [] k = "red" -> JInt(300)
          [] k = "green" -> JInt(-5)
          [] k = "blue" -> JFloat(2559)
          [] k = "effect_mode" -> JStr(<<"R","a","i","n","b","o","w">>)
          [] k = "effect_speed" -> JInt(0)
          [] OTHER -> JInt(1000)],
     [k \in {"enabled", "red", "green", "blue", "effect_enabled", "effect_mode",
             "effect_speed", "effect_brightness"} |->
        CASE k = "enabled" -> JNull
          [] k = "red" -> JNull
          [] k = "green" -> JStr(<<"a","b","c">>)
          [] k = "blue" -> JStr(<<" ","-","1","2"," ">>)
          [] k = "effect_enabled" -> JStr(<<"n","o">>)
          [] k = "effect_mode" -> JInt(5)
          [] k = "effect_speed" -> JStr(<<"4","0">>)
          [] OTHER -> JList],
     [k \in {"red", "effect_mode", "effect_speed", "effect_brightness"} |->
        CASE k = "red" -> JStr(<<"2","5","6">>)
          [] k = "effect_mode" -> JStr(<<"s","t","r","o","b","e">>)
          [] k = "effect_speed" -> JFloat(-35)
          [] OTHER -> JFloat(49)]}

\* the values a "profiles" entry may have: one of the objects, or no object
JsonEntries ==
    {[isdict |-> TRUE, data |-> data] : data \in JsonProfiles}
    \cup {[isdict |-> FALSE, data |-> <<>>]}

\* profiles.json at the start: unusable, or an object with entries for any
\* of the two products
ProfileInputs ==
    {[ok |-> FALSE, profiles |-> <<>>]}
    \cup {[ok |-> TRUE, profiles |-> f] :
            f \in UNION {[keys -> JsonEntries] :
                            keys \in SUBSET {ProfileStore_key(pid) : pid \in SUPPORTED_PRODUCTS}}}

\* the profiles the rows of the window can hold (the ranges of their spin
\* boxes, lines 333-341 and 381-383)
RowProfiles ==
    {DeviceDefaultProfile(TRUE, 0, 128, 255, TRUE, EFFECT_RAINBOW, 1, 5),
     DeviceDefaultProfile(FALSE, 255, 255, 0, FALSE, EFFECT_OFF, 20, 100)}

\* ProfileStore.__init__: the store loaded from the file
InitProfiles ==
    /\ EngineIdle
    /\ otherExc = FALSE
    /\ trackScans = FALSE
    /\ CalIdle
    /\ StoreIdle
    /\ _effect_sessions = <<>>
    /\ dispatched = <<>>
    /\ handler = NoHandler
    /\ profileIn \in ProfileInputs
    /\ default_profiles = ProfileStore_load(profileIn)
    /\ profileOut = NoProfileOut
    /\ DlgIdle

\* lines 96-98
ProfileGet ==
    /\ \E product_id \in SUPPORTED_PRODUCTS :
          profileOut' = [NoProfileOut EXCEPT
                            !.op = "get", !.product_id = product_id,
                            !.profile = ProfileStore_get(default_profiles, product_id)]
    /\ UNCHANGED <<engineVars, calVars, storeVars, _effect_sessions, default_profiles,
                   dispatched, handler, profileIn, dlgVars>>

\* lines 100-102; write is the outcome of the write of profiles.json
ProfileSet ==
    /\ \E product_id \in SUPPORTED_PRODUCTS, profile \in RowProfiles, write \in WriteOutcomes :
          /\ default_profiles' = ProfileStore_set(default_profiles, product_id, profile)
          /\ profileOut' = [NoProfileOut EXCEPT
                               !.op = "set", !.product_id = product_id,
                               !.given = profile, !.exc = write]
    /\ UNCHANGED <<engineVars, calVars, storeVars, _effect_sessions, dispatched, handler,
                   profileIn, dlgVars>>

NextProfiles ==
    \/ ProfileGet
    \/ ProfileSet

\* the profile store, loaded from any file of ProfileInputs
SpecProfiles == InitProfiles /\ [][NextProfiles]_vars

(***************************************************************************)
(* MainWindow: the effect sessions.  The session table is a dict in        *)
(* insertion order, held as the sequence of its values.                    *)
(***************************************************************************)
\* product_id = None
NoProduct == 0

EffectSession(key, mode, speed, brightness, base_rgb, target_ids, product_id, phase) ==
    [key |-> key, mode |-> mode, speed |-> speed, brightness |-> brightness,
     base_rgb |-> base_rgb, target_ids |-> target_ids, product_id |-> product_id,
     phase |-> phase]

\* f"profile:{product_id}" of the supported products
SessionKeys ==
    [product_id \in SUPPORTED_PRODUCTS |->
        <<"p", "r", "o", "f", "i", "l", "e", ":">> \o Str(product_id)]

SessionKey(product_id) == SessionKeys[product_id]

\* the position of key in the table, 0 when it holds no such key
Find(sessions, key) ==
    IF \E i \in 1..Len(sessions) : sessions[i].key = key
    THEN CHOOSE i \in 1..Len(sessions) : sessions[i].key = key
    ELSE 0

Has(sessions, key) == Find(sessions, key) # 0

\* sessions[session.key] = session: a key the dict holds keeps its place
Put(sessions, session) ==
    IF Has(sessions, session.key)
    THEN [sessions EXCEPT ![Find(sessions, session.key)] = session]
    ELSE Append(sessions, session)

\* sessions.pop(key, None) and del sessions[key]
Pop(sessions, key) == SelectSeq(sessions, LAMBDA session : session.key # key)

Keys(sessions) == [i \in 1..Len(sessions) |-> sessions[i].key]

Ids(devs) == [i \in 1..Len(devs) |-> devs[i].id]

\* lines 638-642
_resolved_target_ids(session, devs) ==
    IF session.product_id # NoProduct
    THEN Ids(SelectSeq(devs, LAMBDA dev : dev.product_id = session.product_id))
    ELSE SelectSeq(session.target_ids, LAMBDA device_id : device_id \in Range(Ids(devs)))

(***************************************************************************)
(* X56UsbBackend.set_rgb_many as its callers see it: the call raises, or   *)
(* it returns the number of devices applied and the failure lines.  Which  *)
(* of the targets fail is the USB stack's choice.                          *)
(***************************************************************************)
DispatchOutcomes ==
    {"applied", "partial", "failed"} \cup (IF otherExc THEN {"raised"} ELSE {})

\* the targets whose four attempts all fail
FailedTargets(targets0, outcome) ==
    IF outcome = "failed" THEN targets0
    ELSE IF outcome = "partial" THEN SubSeq(targets0, 1, 1)
    ELSE <<>>

\* the bus of the window: a joystick, a throttle and a second joystick
FxUniverse == {PhysicalDevice(1), PhysicalDevice(2), PhysicalDevice(3)}

\* what a scan of that bus gives
FxScans ==
    {[exc |-> NoExc, found |-> {Handle(dev, NextGen) : dev \in S}] : S \in SUBSET FxUniverse}
    \cup {[exc |-> NoBackendError, found |-> {}]}

\* the scan matters only to a call made while the backend holds no entry
ScansFor(ents) == IF ents = <<>> THEN FxScans ELSE {[exc |-> NoExc, found |-> {}]}

set_rgb_many(ents, device_ids, red, green, blue, outcome, scan) ==
    LET pre == Preconditions(ents, device_ids, red, green, blue, scan)
        bad == FailedTargets(pre.targets, outcome)
        raised(e) == [kind |-> "raised", exc |-> e, applied |-> 0, failures |-> <<>>,
                      entries |-> pre.entries]
    IN  IF pre.exc # NoExc THEN raised(pre.exc)
        ELSE IF outcome = "raised" THEN raised(OtherExc)
        ELSE [kind |-> "returned", exc |-> NoExc,
              applied |-> Len(pre.targets) - Len(bad),
              failures |-> [i \in 1..Len(bad) |->
                               FailureLine(bad[i].info, WrapUsbError(ErrIo))],
              entries |-> pre.entries]

\* one call of set_rgb_many a handler made: the handler, the session key (the
\* product's key for a static default), the ids passed, how the call ended
\* and the length of the failures list it returned
Dispatch(by, key, target_ids, res) ==
    [by |-> by, key |-> key, ids |-> target_ids, kind |-> res.kind,
     failures |-> Len(res.failures)]

\* what a handler has done so far: the session table, the backend's entries,
\* the calls made, the exception that left the handler, the keys it armed
Running(sessions, ents) ==
    [sessions |-> sessions, entries |-> ents, sent |-> <<>>, escaped |-> NoExc,
     armed |-> {}]

(***************************************************************************)
(* MainWindow._effect_tick                                                 *)
(***************************************************************************)
\* a session whose phase advances although the call raised
AfterDispatchAlways(session, res) ==
    [session EXCEPT !.phase = next_phase(session.phase, session.speed)]

\* lines 666-678: the phase advances when the call returned
AfterDispatch(session, res) ==
    IF res.kind = "returned"
    THEN [session EXCEPT !.phase = next_phase(session.phase, session.speed)]
    ELSE session

\* a tick that drops a session that has no target
NoTargetDrops(sessions, key) == Pop(sessions, key)

\* lines 657-659: a session that has no target is passed over
NoTarget(sessions, key) == sessions

RECURSIVE TickFrom(_, _, _, _, _)
TickFrom(i, session_keys, devs, st, choice) ==
    IF i > Len(session_keys) \/ st.escaped # NoExc THEN st
    ELSE
    LET session_key == session_keys[i]
        session == st.sessions[Find(st.sessions, session_key)]
        target_ids == _resolved_target_ids(session, devs)
        out_rgb == compute_effect_color(session.mode, session.base_rgb, session.phase,
                                        session.brightness)
        res == set_rgb_many(st.entries, target_ids, out_rgb[1], out_rgb[2], out_rgb[3],
                            choice[session_key].outcome, choice[session_key].scan)
        sent == Append(st.sent,
                       Dispatch("tick", session_key, target_ids, res))
    IN  IF ~Has(st.sessions, session_key)
        THEN TickFrom(i + 1, session_keys, devs, st, choice)
        ELSE IF session.mode = EFFECT_OFF
        THEN TickFrom(i + 1, session_keys, devs,
                      [st EXCEPT !.sessions = Pop(st.sessions, session_key)], choice)
        ELSE IF target_ids = <<>>
        THEN TickFrom(i + 1, session_keys, devs,
                      [st EXCEPT !.sessions = NoTarget(st.sessions, session_key)], choice)
        ELSE IF res.kind = "raised" /\ res.exc.type # "BackendError"
        THEN [st EXCEPT !.sessions = Put(st.sessions, AfterDispatch(session, res)),
                        !.entries = res.entries, !.sent = sent, !.escaped = res.exc]
        ELSE TickFrom(i + 1, session_keys, devs,
                      [st EXCEPT !.sessions = Put(st.sessions, AfterDispatch(session, res)),
                                 !.entries = res.entries,
                                 !.sent = sent],
                      choice)

_effect_tick(sessions, devs, ents, choice) ==
    IF sessions = <<>> \/ devs = <<>>
    THEN Running(sessions, ents)
    ELSE TickFrom(1, Keys(sessions), devs, Running(sessions, ents), choice)

(***************************************************************************)
(* MainWindow._auto_apply_default_profiles                                 *)
(***************************************************************************)
\* the keys of by_product, in the order of the dict
by_product(devs) ==
    LET firsts == SelectSeq([i \in 1..Len(devs) |-> i],
                            LAMBDA i : \A j \in 1..(i - 1) :
                                          devs[j].product_id # devs[i].product_id)
    IN  [k \in 1..Len(firsts) |-> devs[firsts[k]].product_id]

DeviceKey(dev) == <<dev.product_id, dev.bus, dev.address>>

RECURSIVE AutoApplyFrom(_, _, _, _, _, _, _)
AutoApplyFrom(i, products, devs, new_only, new_keys, st, choice) ==
    IF i > Len(products) \/ st.escaped # NoExc THEN st
    ELSE
    LET product_id == products[i]
        key == SessionKey(product_id)
        profile == ProfileStore_get(default_profiles, product_id)
        device_ids == Ids(SelectSeq(devs, LAMBDA dev : dev.product_id = product_id))
        new_ids == Ids(SelectSeq(devs, LAMBDA dev : /\ dev.product_id = product_id
                                                     /\ DeviceKey(dev) \in new_keys))
        target_ids == IF new_only THEN new_ids ELSE device_ids
        res == set_rgb_many(st.entries, target_ids, profile.red, profile.green,
                            profile.blue, choice[key].outcome, choice[key].scan)
        sent == Append(st.sent,
                       Dispatch("auto", key, target_ids, res))
    IN  IF ~profile.enabled
        THEN AutoApplyFrom(i + 1, products, devs, new_only, new_keys,
                           [st EXCEPT !.sessions = Pop(st.sessions, key)], choice)
        ELSE IF target_ids = <<>>
        THEN AutoApplyFrom(i + 1, products, devs, new_only, new_keys, st, choice)
        ELSE IF /\ profile.effect_enabled
                /\ profile.effect_mode \in Range(EFFECT_MODES)
                /\ profile.effect_mode # EFFECT_OFF
        THEN AutoApplyFrom(i + 1, products, devs, new_only, new_keys,
                           [st EXCEPT
                               !.sessions =
                                   Put(st.sessions,
                                       EffectSession(key, profile.effect_mode,
                                                     profile.effect_speed,
                                                     profile.effect_brightness,
                                                     <<profile.red, profile.green,
                                                       profile.blue>>,
                                                     <<>>, product_id, 0)),
                               !.armed = st.armed \cup {key}],
                           choice)
        ELSE IF res.kind = "raised"
        THEN [st EXCEPT !.sessions = Pop(st.sessions, key), !.entries = res.entries,
                        !.sent = sent, !.escaped = res.exc]
        ELSE AutoApplyFrom(i + 1, products, devs, new_only, new_keys,
                           [st EXCEPT !.sessions = Pop(st.sessions, key),
                                      !.entries = res.entries, !.sent = sent],
                           choice)

_auto_apply_default_profiles(new_only, new_keys, sessions, devs, ents, choice) ==
    IF devs = <<>>
    THEN Running(sessions, ents)
    ELSE AutoApplyFrom(1, by_product(devs), devs, new_only, new_keys,
                       Running(sessions, ents), choice)

(***************************************************************************)
(* The handlers of the window, each as one step.  calibration.json is      *)
(* absent, so _build_calibration_map returns {} and writes nothing.        *)
(***************************************************************************)
MaxTicks == 2

\* every session has been dispatched fewer than MaxTicks times
TicksLeft ==
    \A i \in 1..Len(_effect_sessions) :
        _effect_sessions[i].phase
            < MaxTicks * (next_phase(0, _effect_sessions[i].speed))

\* the outcome of every call a handler may make, by session key; callers
\* holds the keys the handler may call set_rgb_many for
Choices(callers, ents) == [callers -> [outcome : DispatchOutcomes, scan : ScansFor(ents)]]

\* the sessions a tick finds a target for
TickCallers(sessions, devs) ==
    {sessions[i].key : i \in {j \in 1..Len(sessions) :
                                 _resolved_target_ids(sessions[j], devs) # <<>>}}

\* the products of the device list whose default profile is enabled and
\* arms no effect
AutoCallers(devs) ==
    {SessionKey(devs[i].product_id) :
        i \in {j \in 1..Len(devs) :
                  LET profile == ProfileStore_get(default_profiles, devs[j].product_id)
                  IN  /\ profile.enabled
                      /\ ~(profile.effect_enabled /\ profile.effect_mode # EFFECT_OFF)}}

Ran(op, st) ==
    /\ _effect_sessions' = st.sessions
    /\ entries' = st.entries
    /\ dispatched' = st.sent
    /\ escaped' = st.escaped
    /\ handler' = [op |-> op, armed |-> st.armed]

backendVars == <<pc, batchVars, deviceVars, attemptVars, scanVars, envVars>>

EffectTick ==
    /\ pc = "idle"
    /\ escaped = NoExc
    /\ TicksLeft
    /\ \E choice \in Choices(TickCallers(_effect_sessions, devices), entries) :
          Ran("tick", _effect_tick(_effect_sessions, devices, entries, choice))
    /\ UNCHANGED <<devices, detected_keys, shown_error, default_profiles, backendVars,
                   calVars, storeVars, profVars, dlgVars>>

\* "Apply Defaults Now"
ApplyDefaults ==
    /\ pc = "idle"
    /\ escaped = NoExc
    /\ \E choice \in Choices(AutoCallers(devices), entries) :
          Ran("defaults",
              _auto_apply_default_profiles(FALSE, {}, _effect_sessions, devices, entries,
                                           choice))
    /\ UNCHANGED <<devices, detected_keys, shown_error, default_profiles, backendVars,
                   calVars, storeVars, profVars, dlgVars>>

\* a poll that takes every key its refresh finds for newly detected
PollForgetsPrevious ==
    /\ pc = "idle"
    /\ escaped = NoExc
    /\ \E scan \in FxScans :
          IF scan.exc = NoExc
          THEN LET ents == refresh(scan.found)
                   devs == Infos(ents)
                   current == {DeviceKey(devs[i]) : i \in 1..Len(devs)}
               IN  /\ devices' = devs
                   /\ detected_keys' = current
                   /\ \E choice \in Choices(AutoCallers(devs), ents) :
                         Ran("poll",
                             IF current # {}
                             THEN _auto_apply_default_profiles(TRUE, current,
                                                               _effect_sessions, devs,
                                                               ents, choice)
                             ELSE Running(_effect_sessions, ents))
          ELSE /\ UNCHANGED <<devices, detected_keys>>
               /\ Ran("poll",
                      IF scan.exc.type = "BackendError"
                      THEN Running(_effect_sessions, entries)
                      ELSE [Running(_effect_sessions, entries) EXCEPT !.escaped = scan.exc])
    /\ UNCHANGED <<shown_error, default_profiles, backendVars, calVars, storeVars, profVars, dlgVars>>

\* lines 630-636: refresh_devices(show_errors=False), then the defaults of
\* the devices whose key was not detected before
PollDevices ==
    /\ pc = "idle"
    /\ escaped = NoExc
    /\ \E scan \in FxScans :
          IF scan.exc = NoExc
          THEN LET ents == refresh(scan.found)
                   devs == Infos(ents)
                   current == {DeviceKey(devs[i]) : i \in 1..Len(devs)}
                   newly_detected == current \ detected_keys
               IN  /\ devices' = devs
                   /\ detected_keys' = current
                   /\ \E choice \in Choices(AutoCallers(devs), ents) :
                         Ran("poll",
                             IF newly_detected # {}
                             THEN _auto_apply_default_profiles(TRUE, newly_detected,
                                                               _effect_sessions, devs,
                                                               ents, choice)
                             ELSE Running(_effect_sessions, ents))
          ELSE /\ UNCHANGED <<devices, detected_keys>>
               /\ Ran("poll",
                      IF scan.exc.type = "BackendError"
                      THEN Running(_effect_sessions, entries)
                      ELSE [Running(_effect_sessions, entries) EXCEPT !.escaped = scan.exc])
    /\ UNCHANGED <<shown_error, default_profiles, backendVars, calVars, storeVars, profVars, dlgVars>>

\* what the controls of a product's row may hold: enabled, the color, the
\* effect mode, speed and brightness
Controls(product_id) ==
    {[enabled |-> FALSE, rgb |-> <<255, 128, 0>>, effect_mode |-> EFFECT_OFF,
      effect_speed |-> 3, effect_brightness |-> 100],
     [enabled |-> TRUE, rgb |-> <<255, 128, 0>>, effect_mode |-> EFFECT_OFF,
      effect_speed |-> 3, effect_brightness |-> 100],
     [enabled |-> TRUE, rgb |-> <<0, 0, 255>>, effect_mode |-> EFFECT_RAINBOW,
      effect_speed |-> IF product_id = PID_JOYSTICK THEN 20 ELSE 3,
      effect_brightness |-> IF product_id = PID_JOYSTICK THEN 100 ELSE 5]}

\* lines 706-738; write is the outcome of the write of profiles.json
_save_default_profile_for(product_id, controls, write) ==
    LET effect_mode == controls.effect_mode
        effect_enabled == effect_mode # EFFECT_OFF
        profile == DeviceDefaultProfile(controls.enabled, controls.rgb[1], controls.rgb[2],
                                        controls.rgb[3], effect_enabled, effect_mode,
                                        controls.effect_speed, controls.effect_brightness)
    IN  /\ default_profiles' = ProfileStore_set(default_profiles, product_id, profile)
        /\ Ran("save", [Running(_effect_sessions, entries) EXCEPT !.escaped = write])

SaveDefaultProfile ==
    /\ pc = "idle"
    /\ escaped = NoExc
    /\ \E product_id \in SUPPORTED_PRODUCTS, write \in WriteOutcomes :
          \E controls \in Controls(product_id) :
             _save_default_profile_for(product_id, controls, write)
    /\ UNCHANGED <<devices, detected_keys, shown_error, backendVars, calVars, storeVars, profVars, dlgVars>>

\* a stop that leaves the session table as it is
StopKeepsSessions ==
    /\ pc = "idle"
    /\ escaped = NoExc
    /\ Ran("stop", Running(_effect_sessions, entries))
    /\ UNCHANGED <<devices, detected_keys, shown_error, default_profiles, backendVars,
                   calVars, storeVars, profVars, dlgVars>>

\* lines 680-683
stop_all_effects ==
    /\ pc = "idle"
    /\ escaped = NoExc
    /\ Ran("stop", Running(<<>>, entries))
    /\ UNCHANGED <<devices, detected_keys, shown_error, default_profiles, backendVars,
                   calVars, storeVars, profVars, dlgVars>>

\* the profiles.json found at start: none, or one that holds for the joystick
\* a profile whose effect is enabled with the mode off
LoadedProfiles == {DeviceDefaultProfile(TRUE, 255, 0, 0, TRUE, EFFECT_OFF, 20, 100)}

ProfileFiles ==
    UNION {[keys -> LoadedProfiles] : keys \in SUBSET {ProfileStore_key(PID_JOYSTICK)}}

InitEffects ==
    /\ EngineIdle
    /\ otherExc = TRUE
    /\ trackScans = FALSE
    /\ CalIdle
    /\ StoreIdle
    /\ ProfIdle
    /\ DlgIdle
    /\ _effect_sessions = <<>>
    /\ default_profiles \in ProfileFiles
    /\ dispatched = <<>>
    /\ handler = NoHandler

\* the Refresh button: refresh_devices(show_errors=True)
ManualRefresh ==
    /\ pc = "idle"
    /\ escaped = NoExc
    /\ \E scan \in FxScans :
          IF scan.exc = NoExc
          THEN /\ devices' = Infos(refresh(scan.found))
               /\ detected_keys' = {DeviceKey(devices'[i]) : i \in 1..Len(devices')}
               /\ Ran("refresh", Running(_effect_sessions, refresh(scan.found)))
               /\ UNCHANGED shown_error
          ELSE /\ UNCHANGED <<devices, detected_keys>>
               /\ IF scan.exc.type = "BackendError"
                  THEN /\ shown_error' = scan.exc.msg
                       /\ Ran("refresh", Running(_effect_sessions, entries))
                  ELSE /\ UNCHANGED shown_error
                       /\ Ran("refresh", [Running(_effect_sessions, entries)
                                             EXCEPT !.escaped = scan.exc])
    /\ UNCHANGED <<default_profiles, backendVars, calVars, storeVars, profVars, dlgVars>>

NextEffects ==
    \/ ManualRefresh
    \/ PollDevices
    \/ EffectTick
    \/ ApplyDefaults
    \/ SaveDefaultProfile
    \/ stop_all_effects

\* the window with its two timers, the device list, the default profiles and
\* the tray menu, every set_rgb_many call taken as one step
SpecEffects == InitEffects /\ [][NextEffects]_vars

(***************************************************************************)
(* The calibration dialog.  open_calibration_dialog hands the dialog the   *)
(* list object the window holds at that moment and runs it with exec(),    *)
(* whose event loop keeps the poll timer firing; refresh_devices binds a   *)
(* new list to the window and leaves the dialog's list as it was.          *)
(***************************************************************************)
\* the physical device behind an entry, as (product_id, bus, address)
HandleKey(entry) == <<entry.device.idProduct, entry.device.bus, entry.device.address>>

\* lines 843-848
open_calibration_dialog ==
    /\ pc = "idle"
    /\ escaped = NoExc
    /\ ~dialog.open
    /\ IF devices = <<>>
       THEN /\ shown_error' = <<"No devices found. Refresh first.">>
            /\ UNCHANGED dialog
       ELSE /\ dialog' = [NoDialog EXCEPT !.open = TRUE, !.devices = devices]
            /\ UNCHANGED shown_error
    /\ Ran("open", Running(_effect_sessions, entries))
    /\ UNCHANGED <<devices, detected_keys, default_profiles, backendVars, calVars,
                   storeVars, profVars>>

\* line 848: exec() returns when the dialog is closed
CloseDialog ==
    /\ pc = "idle"
    /\ escaped = NoExc
    /\ dialog.open
    /\ dialog' = NoDialog
    /\ Ran("close", Running(_effect_sessions, entries))
    /\ UNCHANGED <<devices, detected_keys, shown_error, default_profiles, backendVars,
                   calVars, storeVars, profVars>>

\* lines 850-875, called by CalibrationDialog._preview_target (lines 195-207)
\* with the id of the dialog's device and the White target; the calibration
\* passed changes the color sent, not the devices resolved
_preview_calibration_target(device, outcome, scan) ==
    LET device_id == device.id
        pre == Preconditions(entries, <<device_id>>, 255, 255, 255, scan)
        res == set_rgb_many(entries, <<device_id>>, 255, 255, 255, outcome, scan)
        st == [Running(_effect_sessions, res.entries) EXCEPT
                  !.sent = <<Dispatch("preview", <<>>, <<device_id>>, res)>>,
                  !.escaped = IF res.kind = "raised" /\ res.exc.type # "BackendError"
                              THEN res.exc ELSE NoExc]
    IN  /\ dialog' = [dialog EXCEPT
                         !.picked = <<device>>,
                         !.received = IF res.kind = "returned"
                                      THEN {HandleKey(pre.targets[i]) :
                                               i \in 1..Len(pre.targets)}
                                      ELSE {}]
        /\ shown_error' = IF res.kind = "raised" /\ res.exc.type = "BackendError"
                          THEN res.exc.msg
                          ELSE IF res.kind = "returned" /\ res.failures # <<>>
                          THEN res.failures[1]
                          ELSE shown_error
        /\ Ran("preview", st)

\* the Preview button of the dialog; _current_device (lines 140-149) is the
\* device of the dialog's list the combo box names
PreviewTarget ==
    /\ pc = "idle"
    /\ escaped = NoExc
    /\ dialog.open
    /\ \E i \in 1..Len(dialog.devices), outcome \in DispatchOutcomes,
          scan \in ScansFor(entries) :
          _preview_calibration_target(dialog.devices[i], outcome, scan)
    /\ UNCHANGED <<devices, detected_keys, default_profiles, backendVars, calVars,
                   storeVars, profVars>>

InitPreview ==
    /\ EngineIdle
    /\ otherExc = FALSE
    /\ trackScans = FALSE
    /\ CalIdle
    /\ StoreIdle
    /\ ProfIdle
    /\ DlgIdle
    /\ _effect_sessions = <<>>
    /\ default_profiles \in ProfileFiles
    /\ dispatched = <<>>
    /\ handler = NoHandler

NextPreview ==
    \/ PollDevices
    \/ open_calibration_dialog
    \/ CloseDialog
    \/ PreviewTarget

\* the window with its poll timer and the calibration dialog
SpecPreview == InitPreview /\ [][NextPreview]_vars

(***************************************************************************)
(* Specifications                                                          *)
(***************************************************************************)
\* a refresh that may run while a call of set_rgb_many is under way
DoRefreshDuringCall ==
    \E scan \in ScanOutcomes :
       /\ scan.exc = NoExc
       /\ entries' = refresh(scan.found)
       /\ devices' = Infos(entries')
       /\ detected_keys' = {DeviceKey(devices'[i]) : i \in 1..Len(devices')}
       /\ listing' = Listed(scan.found)
       /\ handleGen' = NextGen
       /\ UNCHANGED <<shown_error, escaped, pc, batchVars, deviceVars, attemptVars,
                      envVars, frameVars>>

\* the handlers run one at a time on the Qt thread: refresh_devices starts
\* when no other handler is running
DoRefreshDevices ==
    /\ pc = "idle"
    /\ \E show_errors \in BOOLEAN, scan \in ScanOutcomes : RefreshDevices(show_errors, scan)

\* a caller of the backend's interface, with any selector and color; the scan
\* outcome matters only when the call scans
DoSetRgbMany ==
    /\ pc = "idle"
    /\ \E device_ids \in Selectors, c \in Colors, scan \in ScanOutcomes :
          SetRgbMany(device_ids, c[1], c[2], c[3], scan)

DoSetConfiguration ==
    /\ pc = "attempt"
    /\ \E res \in {NoExc, ErrIo, OtherExc} : SetConfiguration(res)

DoClaimInterface ==
    /\ pc = "claim"
    /\ \E answer \in KernelAnswers,
          detach \in {NoExc} \cup USBErrors \cup {OtherExc},
          claim \in {NoExc} \cup USBErrors \cup {OtherExc} :
            ClaimInterface(answer, detach, claim)

DoColorTransfer ==
    /\ pc = "color"
    /\ \E res \in {NoExc} \cup USBErrors \cup {OtherExc} : ColorTransfer(res)

DoApplyTransfer ==
    /\ pc = "apply"
    /\ \E res \in {NoExc} \cup USBErrors \cup {OtherExc} : ApplyTransfer(res)

DoReleaseInterface ==
    /\ pc = "finally"
    /\ \E release \in {NoExc, ErrIo}, attach \in {NoExc, ErrIo} :
          ReleaseInterface(release, attach)

Next ==
    \/ DoRefreshDevices
    \/ DoSetRgbMany
    \/ LoopHead
    \/ DoSetConfiguration
    \/ DoClaimInterface
    \/ DoColorTransfer
    \/ DoApplyTransfer
    \/ DoReleaseInterface
    \/ AttemptEnd
    \/ Finish

\* the USB stack raises USBError only (NotImplementedError from the kernel
\* driver query)
Spec == Init /\ [][Next]_vars

\* the USB calls of the try body may also raise an exception that is no
\* USBError
SpecExc == InitExc /\ [][Next]_vars

\* Spec with the scans told apart: every scan makes new handles
SpecRefresh == InitRefresh /\ [][Next]_vars

(***************************************************************************)
(* Reading the log of an attempt                                           *)
(***************************************************************************)
Invoked(op, iface) ==
    \E i \in 1..Len(log) : log[i].op = op /\ log[i].a = iface

Succeeded(op, iface) ==
    \E i \in 1..Len(log) : log[i].op = op /\ log[i].a = iface /\ log[i].res = NoExc

Raised(op, iface) ==
    \E i \in 1..Len(log) : log[i].op = op /\ log[i].a = iface /\ log[i].res # NoExc

\* interfaces the attempt claimed and has not released
StillClaimed ==
    {iface \in {0, 2} : Succeeded("claim_interface", iface)
                        /\ ~Succeeded("release_interface", iface)}

\* interfaces whose kernel driver the attempt detached and has not reattached
LeftDetached ==
    {iface \in {0, 2} : Succeeded("detach_kernel_driver", iface)
                        /\ ~Succeeded("attach_kernel_driver", iface)}

\* a pipe error: errno 32, or "pipe error" in the text whatever the case
PipeError(e) ==
    e.type = "USBError" /\ (e.errno = 32 \/ Contains(Lower(e.msg), PipeErrorText))

TransferRaised(wValue) ==
    \E i \in 1..Len(log) : /\ log[i].op = "ctrl_transfer"
                           /\ log[i].a = wValue
                           /\ log[i].res.type = "USBError"

\* the exception of the control transfer with this wValue, NoExc if it was not
\* sent or raised nothing
TransferError(wValue) ==
    IF \E i \in 1..Len(log) : log[i].op = "ctrl_transfer" /\ log[i].a = wValue
    THEN log[CHOOSE i \in 1..Len(log) : log[i].op = "ctrl_transfer" /\ log[i].a = wValue].res
    ELSE NoExc

ApplyRaisedPipe == PipeError(TransferError(768))
ApplyRaisedOther == TransferError(768).type = "USBError" /\ ~PipeError(TransferError(768))
ColorRaised == TransferError(777).type = "USBError"

\* an attempt is running
InAttempt == pc \in {"attempt", "claim", "color", "apply", "finally", "attempt_end"}

\* set_rgb_many has just finished a device: the log and devResults are those of
\* that device's last attempt
DeviceDone == pc = "loop" /\ tIdx > 1

LastTarget == targets[tIdx - 1].info

InFailures(id) == \E i \in 1..Len(failures) : failures[i][2] = id

AllFailed(results) == \A k \in 1..Len(results) : ~results[k].ok

(***************************************************************************)
(* C1                                                                      *)
(***************************************************************************)
\* C1 as stated: when an attempt ends, on whatever path, release was invoked
\* for every interface of its set, reattach was invoked for exactly the
\* interfaces it detached, and so no interface is still claimed and no driver
\* it detached is left detached.
C1_Claim ==
    pc = "attempt_end" =>
        /\ \A iface \in Range(interfaces) :
              /\ Invoked("release_interface", iface)
              /\ Invoked("attach_kernel_driver", iface)
                     <=> Succeeded("detach_kernel_driver", iface)
        /\ StillClaimed = {}
        /\ LeftDetached = {}

\* C1 amended: when an attempt ends, on whatever path, release was invoked for
\* every interface of its set and reattach for exactly the interfaces it
\* detached; an interface is still claimed, or a driver left detached, only
\* where that release or reattach call itself raised a USB error (swallowed).
C1_ReleaseOnEveryExit ==
    pc = "attempt_end" =>
        /\ \A iface \in Range(interfaces) :
              /\ Invoked("release_interface", iface)
              /\ Invoked("attach_kernel_driver", iface)
                     <=> Succeeded("detach_kernel_driver", iface)
        /\ \A iface \in {0, 2} \ Range(interfaces) :
              ~Invoked("release_interface", iface) /\ ~Invoked("attach_kernel_driver", iface)
        /\ \A iface \in StillClaimed : Raised("release_interface", iface)
        /\ \A iface \in LeftDetached : Raised("attach_kernel_driver", iface)

\* an attempt on [2, 0] that detached and claimed interface 2, failed to claim
\* interface 0, and has released and reattached interface 2
C1_Witness ==
    /\ pc = "attempt_end"
    /\ exc.type = "BackendError"
    /\ Succeeded("detach_kernel_driver", 2)
    /\ Succeeded("claim_interface", 2)
    /\ Raised("claim_interface", 0)
    /\ Succeeded("release_interface", 2)
    /\ Succeeded("attach_kernel_driver", 2)
    /\ Invoked("release_interface", 0)

(***************************************************************************)
(* C2                                                                      *)
(***************************************************************************)
\* the four combinations, in the order the claim gives them
ExpectedAttempts ==
    << <<(<<2, 0>>), 512>>, <<(<<2, 0>>), 2>>, <<(<<2>>), 512>>, <<(<<2>>), 2>> >>

\* C2: for one device the combinations ([2,0], 0x0200), ([2,0], 2), ([2], 0x0200),
\* ([2], 2) are attempted in that order, each one finished (released) before
\* the next begins; a later combination is tried only after every earlier one
\* failed, the device ends at the first success, and when all four fail the
\* error recorded for the device is the error of the fourth attempt.
C2_RetryOrder ==
    /\ Len(devResults) <= 4
    /\ \A k \in 1..Len(devResults) :
          /\ devResults[k].interfaces = ExpectedAttempts[k][1]
          /\ devResults[k].windex = ExpectedAttempts[k][2]
    /\ InAttempt =>
          /\ attempt = Len(devResults) + 1
          /\ interfaces = ExpectedAttempts[attempt][1]
          /\ windex = ExpectedAttempts[attempt][2]
          /\ AllFailed(devResults)
    /\ (pc = "attempt" /\ attempt > 1) =>
          \A iface \in Range(ExpectedAttempts[attempt - 1][1]) :
              Invoked("release_interface", iface)
    /\ DeviceDone =>
          LET n == Len(devResults)
          IN  /\ n >= 1
              /\ AllFailed(SubSeq(devResults, 1, n - 1))
              /\ IF devResults[n].ok
                 THEN exc = NoExc /\ ~InFailures(LastTarget.id)
                 ELSE /\ n = 4
                      /\ exc.type = "BackendError"
                      /\ failures[Len(failures)] = FailureLine(LastTarget, exc)

\* a device whose four attempts all failed
C2_Witness ==
    /\ DeviceDone
    /\ Len(devResults) = 4
    /\ AllFailed(devResults)
    /\ InFailures(LastTarget.id)

(***************************************************************************)
(* C3                                                                      *)
(***************************************************************************)
\* C3: when the apply transfer of an attempt raises a pipe error (errno 32, or
\* "pipe error" in its text in any case), the attempt ends without an error,
\* the device is counted as applied, no further combination is tried for it
\* and no failure is recorded for it.
C3_PipeErrorOnApply ==
    /\ (pc \in {"finally", "attempt_end"} /\ ApplyRaisedPipe) => exc = NoExc
    /\ (DeviceDone /\ ApplyRaisedPipe) =>
          /\ devResults[Len(devResults)].ok
          /\ devResults[Len(devResults)].interfaces = interfaces
          /\ ~InFailures(LastTarget.id)
          /\ applied >= 1
          /\ applied + Len(failures) = tIdx - 1

\* a device applied by an attempt whose apply transfer raised the pipe error
\* that only its text tells
C3_Witness ==
    /\ DeviceDone
    /\ TransferError(768) = ErrPipeText
    /\ devResults[Len(devResults)].ok
    /\ applied >= 1

(***************************************************************************)
(* C4                                                                      *)
(***************************************************************************)
\* the transport error that failed the transfers of the last attempt
FailedTransfer == IF ColorRaised THEN TransferError(777) ELSE TransferError(768)

TransferSwallowRules ==
    /\ (pc \in {"finally", "attempt_end"} /\ ColorRaised) =>
          /\ exc.type = "BackendError"
          /\ ~Invoked("ctrl_transfer", 768)
    /\ (pc \in {"finally", "attempt_end"} /\ ApplyRaisedOther) => exc.type = "BackendError"
    /\ (DeviceDone /\ (ColorRaised \/ ApplyRaisedOther)) =>
          /\ Len(devResults) = 4
          /\ InFailures(LastTarget.id)

\* C4: a transport error on the color transfer (a pipe error too) and a
\* non-pipe transport error on the apply transfer fail the attempt, no apply
\* transfer follows a failed color transfer, and a device whose fourth attempt
\* failed so is recorded as failed with the text
\* 'USB transfer failed (<detail>).', <detail> the stripped text of the error.
C4_TransferErrorsReported ==
    /\ TransferSwallowRules
    /\ (DeviceDone /\ (ColorRaised \/ ApplyRaisedOther)) =>
          failures[Len(failures)] =
              <<"Device ", LastTarget.id, " (", LastTarget.name, "): ",
                "USB transfer failed (", Strip(FailedTransfer.msg), ").">>

\* a device recorded as failed after a non-pipe error of the apply transfer of
\* its fourth attempt
C4_Witness ==
    /\ DeviceDone
    /\ ApplyRaisedOther
    /\ Len(devResults) = 4
    /\ failures[Len(failures)] =
           <<"Device ", LastTarget.id, " (", LastTarget.name, "): ",
             "USB transfer failed (", <<"i", "o">>, ").">>

(***************************************************************************)
(* C5                                                                      *)
(***************************************************************************)
Returned == pc = "done" /\ result.kind = "returned"

\* C5: a call that passed its preconditions with N targets of which M failed
\* all four attempts returns success_count and failures with
\* success_count + len(failures) = N and success_count = N - M.
C5_CountsAddUp ==
    Returned =>
        /\ result.applied + Len(result.failures) = Len(targets)
        /\ result.applied = Len(targets) - Len(failed)

\* two targets, the first applied and the second failed
C5_Witness ==
    /\ Returned
    /\ Len(targets) = 2
    /\ failed = <<2>>
    /\ result.applied = 1

(***************************************************************************)
(* C6                                                                      *)
(***************************************************************************)
FailureIds == [i \in 1..Len(failures) |-> failures[i][2]]

\* C6: the devices are processed in the order of the targets; a call that
\* returns has attempted every target, whatever the devices before it did;
\* the failures are those of the devices that failed, in processing order.
C6_SiblingsNotAborted ==
    /\ Len(attempted) <= Len(targets)
    /\ \A i \in 1..Len(attempted) : attempted[i] = targets[i].info.id
    /\ InAttempt => Len(attempted) = tIdx
    /\ Returned => Len(attempted) = Len(targets)
    /\ FailureIds = failed
    /\ \A i, j \in 1..Len(failures) :
          i < j => \E m, n \in 1..Len(attempted) :
                       /\ m < n
                       /\ attempted[m] = failures[i][2]
                       /\ attempted[n] = failures[j][2]

\* two targets, the first failed and the second applied after it
C6_Witness ==
    /\ Returned
    /\ Len(targets) = 2
    /\ failed = <<1>>
    /\ attempted = <<1, 2>>
    /\ result.applied = 1

(***************************************************************************)
(* C7                                                                      *)
(***************************************************************************)
PreconditionsPassed == tIdx >= 1

NeverRaises == (pc = "done" /\ PreconditionsPassed) => result.kind = "returned"

\* a call of the last attempt raised something else than the pipe error of
\* the apply transfer
SomeCallFailed ==
    \E i \in 1..Len(log) :
        /\ log[i].res # NoExc
        /\ ~(log[i].op = "ctrl_transfer" /\ log[i].a = 768 /\ PipeError(log[i].res))

RangeError == BackendError(<<"RGB values must be in range 0-255.">>)

PreconditionFailed == pc = "done" /\ ~PreconditionsPassed /\ result.exc.type = "BackendError"

\* C8 as stated: a call that fails a precondition has made no USB I/O before it
\* fails: no bus scan, no interface claim, no control transfer.
C8_Claim == PreconditionFailed => (~scanned /\ log = <<>>)

\* C8 amended: a call that fails a precondition has claimed no interface and
\* sent no control transfer; it has scanned the bus only if the backend held no
\* device at the call and the color was in range.
C8_NoTransferBeforePreconditions ==
    [][(pc = "idle" /\ pc' = "done") =>
          /\ log' = <<>>
          /\ scanned' => entries = <<>>
          /\ result'.exc = RangeError => ~scanned']_vars

\* a call with an empty selector that failed after it scanned the bus
C8_Witness ==
    /\ PreconditionFailed
    /\ result.exc = BackendError(<<"No target device selected.">>)
    /\ scanned
    /\ entries # <<>>

(***************************************************************************)
(* C9                                                                      *)
(***************************************************************************)
NotFound == BackendError(<<"Selected device ids were not found.">>)

Wanted(entry) == 0 \in Range(args.device_ids) \/ entry.info.id \in Range(args.device_ids)

\* C9: the targets are every enumerated device when the selector holds 0, else
\* the enumerated devices whose id is in the selector, each once and in
\* enumeration order; an id that is not enumerated gives no failure entry; when
\* the selector is not empty and matches no enumerated device the call raises
\* "Selected device ids were not found." and returns nothing.
C9_TargetResolution ==
    /\ (pc = "loop" /\ tIdx = 1) =>
          /\ targets # <<>>
          /\ \A i \in 1..Len(entries) :
                Wanted(entries[i]) <=> \E j \in 1..Len(targets) : targets[j] = entries[i]
          /\ \A j \in 1..Len(targets) : \E i \in 1..Len(entries) : targets[j] = entries[i]
          /\ \A i, j \in 1..Len(targets) : i < j => targets[i].info.id < targets[j].info.id
    /\ \A i \in 1..Len(failures) :
          \E j \in 1..Len(targets) : failures[i][2] = targets[j].info.id
    /\ Returned => result.applied + Len(result.failures) >= 1
    /\ (pc = "done" /\ ~PreconditionsPassed) =>
          (result.exc = NotFound <=>
              /\ _validate_rgb(args.red, args.green, args.blue) = NoExc
              /\ entries # <<>>
              /\ args.device_ids # <<>>
              /\ \A i \in 1..Len(entries) : ~Wanted(entries[i]))

\* a selector with an id that is not enumerated and one that is: one target
C9_Witness ==
    /\ pc = "loop"
    /\ tIdx = 1
    /\ args.device_ids = <<3, 1>>
    /\ Len(entries) = 2
    /\ Len(targets) = 1
    /\ targets[1].info.id = 1

(***************************************************************************)
(* C10                                                                     *)
(***************************************************************************)
\* C10: when the bus scan cannot be performed, refresh fails with a
\* BackendError, the error kind the callers catch: no other exception leaves
\* refresh_devices unhandled, and set_rgb_many raises nothing but BackendError.
C10_Claim ==
    /\ escaped = NoExc
    /\ (pc = "done" /\ result.kind = "raised") => result.exc.type = "BackendError"

(***************************************************************************)
(* C11                                                                     *)
(***************************************************************************)
Supported(dev) == dev.idProduct = 8737 \/ dev.idProduct = 41505

\* C11: after a refresh that succeeded the backend holds one entry for each
\* device of the bus listing with a supported product id and no other entry,
\* the entries are in increasing order of (bus, address), entry i has session
\* id i, so the ids are 1..N, and every handle held is a handle of that
\* listing: no entry or handle of an earlier refresh is kept.
C11_RefreshReplaces ==
    /\ \A dev \in listing :
          Supported(dev) <=> \E i \in 1..Len(entries) : entries[i].device = dev
    /\ \A i \in 1..Len(entries) :
          /\ entries[i].device \in listing
          /\ entries[i].device.gen = handleGen
          /\ entries[i].info.id = i
          /\ entries[i].info.bus = entries[i].device.bus
          /\ entries[i].info.address = entries[i].device.address
          /\ entries[i].info.product_id = entries[i].device.idProduct
    /\ \A i, j \in 1..Len(entries) :
          i < j => \/ entries[i].info.bus < entries[j].info.bus
                   \/ /\ entries[i].info.bus = entries[j].info.bus
                      /\ entries[i].info.address < entries[j].info.address

\* a later refresh found an unsupported device and two supported ones whose
\* order by (bus, address) is not their order by address
C11_Witness ==
    /\ handleGen = 0
    /\ Cardinality(listing) = 3
    /\ Len(entries) = 2
    /\ entries[1].info.address = 2
    /\ entries[2].info.address = 1

(***************************************************************************)
(* C12                                                                     *)
(***************************************************************************)
InRange(c) == \A i \in 1..3 : 0 <= c[i] /\ c[i] <= 255

\* the target apply selects: the explicit name when one is given, else a
\* palette name at the least distance, the first in palette order
NearestIndex(c) ==
    CHOOSE i \in 1..7 :
        /\ \A j \in 1..7 : Distance(c[1], c[2], c[3], CALIBRATION_COLORS[i].rgb)
                               <= Distance(c[1], c[2], c[3], CALIBRATION_COLORS[j].rgb)
        /\ \A j \in 1..(i - 1) : Distance(c[1], c[2], c[3], CALIBRATION_COLORS[j].rgb)
                                     > Distance(c[1], c[2], c[3], CALIBRATION_COLORS[i].rgb)

SelectedTarget(c, t) ==
    IF t # None /\ t # "" THEN t
    ELSE <<"Red", "Green", "Blue", "Orange", "Purple", "Pink", "White">>[NearestIndex(c)]

HoldsOffset(cal, name) ==
    ~cal.target_offsets.none /\ name \in DOMAIN cal.target_offsets.map

\* C12 as stated: for all integers r, g, b, any calibration and any target or
\* none, every component apply returns is in [0,255].
C12_Claim == calOut.op = "apply" => InRange(calOut.rgb)

\* C12 amended: every component apply returns is in [0,255] when r, g, b are
\* in [0,255] or the calibration holds an offset for the selected target; when
\* it holds none, apply returns r, g, b as they are, in range or not.
C12_ApplyInRange ==
    calOut.op = "apply" =>
        LET held == HoldsOffset(calIn.cal, SelectedTarget(calIn.color, calIn.target_name))
        IN  /\ (InRange(calIn.color) \/ held) => InRange(calOut.rgb)
            /\ ~held => calOut.rgb = calIn.color

\* channels outside [0,255] brought into it by an offset for the explicit target
C12_Witness ==
    /\ calOut.op = "apply"
    /\ calIn.color = <<300, -40, 128>>
    /\ calIn.cal = CalWide
    /\ calIn.target_name = "Green"
    /\ calOut.rgb = <<0, 255, 138>>

(***************************************************************************)
(* C13                                                                     *)
(***************************************************************************)
ClampRef(x) == IF x < 0 THEN 0 ELSE IF x > 255 THEN 255 ELSE x

\* the reference: unchanged without offsets, else the offset of the selected
\* target (zero if none is held) added and clamped
Reference(cal, c, t) ==
    IF cal.target_offsets.none \/ DOMAIN cal.target_offsets.map = {} THEN c
    ELSE LET name == SelectedTarget(c, t)
             off == IF name \in DOMAIN cal.target_offsets.map
                    THEN cal.target_offsets.map[name]
                    ELSE [red |-> 0, green |-> 0, blue |-> 0]
         IN  <<ClampRef(c[1] + off.red), ClampRef(c[2] + off.green), ClampRef(c[3] + off.blue)>>

PaletteRef ==
    << <<"Red", 255, 0, 0>>, <<"Green", 0, 255, 0>>, <<"Blue", 0, 0, 255>>,
       <<"Orange", 190, 20, 0>>, <<"Purple", 180, 0, 200>>, <<"Pink", 190, 4, 18>>,
       <<"White", 255, 255, 255>> >>

SquaredDistance(c, i) ==
    (c[1] - PaletteRef[i][2]) * (c[1] - PaletteRef[i][2])
    + (c[2] - PaletteRef[i][3]) * (c[2] - PaletteRef[i][3])
    + (c[3] - PaletteRef[i][4]) * (c[3] - PaletteRef[i][4])

\* C14: closest_target_name returns the name of a palette entry at the least
\* distance from (r, g, b) among the seven entries, the first in palette order
\* when several are at that distance; a palette color gives its own name.
C14_ClosestTarget ==
    calOut.op = "closest" =>
        \E i \in 1..7 :
            /\ calOut.name = PaletteRef[i][1]
            /\ \A j \in 1..7 : SquaredDistance(calIn.color, i) <= SquaredDistance(calIn.color, j)
            /\ \A j \in 1..(i - 1) :
                  SquaredDistance(calIn.color, j) > SquaredDistance(calIn.color, i)
            /\ \A k \in 1..7 :
                  calIn.color = <<PaletteRef[k][2], PaletteRef[k][3], PaletteRef[k][4]>>
                      => calOut.name = PaletteRef[k][1]

\* Green, Blue and White are at the same, least, distance: Green is returned
C14_Witness ==
    /\ calOut.op = "closest"
    /\ calIn.color = <<0, 255, 255>>
    /\ SquaredDistance(calIn.color, 2) = SquaredDistance(calIn.color, 3)
    /\ SquaredDistance(calIn.color, 2) = SquaredDistance(calIn.color, 7)
    /\ calOut.name = "Green"

(***************************************************************************)
(* C15                                                                     *)
(***************************************************************************)
\* C15 as stated: for every valid calibration, target_offsets absent, empty or
\* holding offsets, from_json(to_json(c)) is equal to c.
C15_Claim == calOut.op = "roundtrip" => calOut.cal = calIn.cal

\* C15 amended: from_json(to_json(c)) has the order and the gains of c and
\* holds the offsets of c under the same names; it is equal to c when
\* target_offsets of c is a mapping, empty or not, and has the empty mapping
\* where c has none.
C15_RoundTrip ==
    calOut.op = "roundtrip" =>
        /\ calOut.cal.order = calIn.cal.order
        /\ calOut.cal.gain_r = calIn.cal.gain_r
        /\ calOut.cal.gain_g = calIn.cal.gain_g
        /\ calOut.cal.gain_b = calIn.cal.gain_b
        /\ ~calOut.cal.target_offsets.none
        /\ calOut.cal.target_offsets.map = calIn.cal.target_offsets.map
        /\ ~calIn.cal.target_offsets.none => calOut.cal = calIn.cal

\* a calibration with an order, gains and two offsets of its own comes back
C15_Witness ==
    /\ calOut.op = "roundtrip"
    /\ calIn.cal = CalWide
    /\ calOut.cal = CalWide

(***************************************************************************)
(* C16                                                                     *)
(***************************************************************************)
\* C16: when get_for_device finds the calibration of a device under its legacy
\* key only, it returns that calibration, and afterwards the store holds it
\* under the plain product key and no longer holds the legacy key.
C16_Claim ==
    (storeOut.op = "get" /\ storeOut.legacy_only /\ storeOut.exc = NoExc) =>
        /\ storeOut.found
        /\ storeOut.key \in DOMAIN profiles
        /\ profiles[storeOut.key] = storeOut.cal
        /\ storeOut.legacy_key \notin DOMAIN profiles

(***************************************************************************)
(* The effect sessions                                                     *)
(***************************************************************************)
SessionOf(sessions, key) == sessions[Find(sessions, key)]

\* 0.02 x clamp(speed, 1, 20), in steps of 0.02
StepOf(speed) == IF speed < 1 THEN 1 ELSE IF speed > 20 THEN 20 ELSE speed

\* the ids of the devices a session drives
Driven(session, devs) ==
    IF session.product_id # NoProduct
    THEN {devs[i].id : i \in {j \in 1..Len(devs) : devs[j].product_id = session.product_id}}
    ELSE Range(session.target_ids) \cap {devs[i].id : i \in 1..Len(devs)}

\* the calls the handler of this step made for key
CallsFor(key) == {i \in 1..Len(dispatched') : dispatched'[i].key = key}

\* the handler of this step is an effect tick and its call for key returned
TickReturned(key) ==
    /\ handler'.op = "tick"
    /\ \E i \in CallsFor(key) : dispatched'[i].kind = "returned"

\* C17: a session's phase is 0 when the session is created; a tick whose
\* dispatch for the session returns adds 0.02 x clamp(speed, 1, 20) to it; no
\* other step of the window (tick without dispatch, poll, refresh, apply of
\* the defaults, save, stop) changes the phase of a session it does not
\* create, so the phase of a session never decreases.
C17_PhaseAdvances ==
    [][\A i \in 1..Len(_effect_sessions') :
          LET after == _effect_sessions'[i]
              before == SessionOf(_effect_sessions, after.key)
          IN  IF after.key \in handler'.armed
              THEN after.phase = 0
              ELSE /\ Has(_effect_sessions, after.key)
                   /\ after.phase >= before.phase
                   /\ after.phase = IF TickReturned(after.key)
                                    THEN before.phase + StepOf(before.speed)
                                    ELSE before.phase]_vars

\* two ticks have advanced a session that the last tick dispatched
C17_Witness ==
    /\ handler.op = "tick"
    /\ \E i \in 1..Len(_effect_sessions), j \in 1..Len(dispatched) :
          /\ dispatched[j].key = _effect_sessions[i].key
          /\ dispatched[j].kind = "returned"
          /\ _effect_sessions[i].speed = 20
          /\ _effect_sessions[i].phase = 40

\* C18: in an effect tick, a session whose dispatch raised is still in the
\* table with its phase (and every other field) unchanged; a session whose
\* dispatch returned has its phase advanced by one step, whatever the length
\* of the failures list returned.
C18_PhaseAfterDispatch ==
    [][handler'.op = "tick" =>
          \A j \in 1..Len(dispatched') :
              LET call == dispatched'[j]
              IN  /\ Has(_effect_sessions, call.key)
                  /\ Has(_effect_sessions', call.key)
                  /\ IF call.kind = "raised"
                     THEN SessionOf(_effect_sessions', call.key)
                              = SessionOf(_effect_sessions, call.key)
                     ELSE SessionOf(_effect_sessions', call.key).phase
                              = SessionOf(_effect_sessions, call.key).phase
                                + StepOf(SessionOf(_effect_sessions, call.key).speed)]_vars

\* a tick in which the dispatch of one session returned with every target in
\* its failures list and the dispatch of another raised
C18_Witness ==
    /\ handler.op = "tick"
    /\ \E j, k \in 1..Len(dispatched) :
          /\ dispatched[j].kind = "returned"
          /\ dispatched[j].failures = Len(dispatched[j].ids)
          /\ Has(_effect_sessions, dispatched[j].key)
          /\ SessionOf(_effect_sessions, dispatched[j].key).phase > 0
          /\ dispatched[k].kind = "raised"
          /\ Has(_effect_sessions, dispatched[k].key)

C20_Claim ==
    /\ \A i \in 1..Len(_effect_sessions) : _effect_sessions[i].mode # EFFECT_OFF
    /\ handler.op = "tick" =>
          \A j \in 1..Len(dispatched), product_id \in SUPPORTED_PRODUCTS :
              dispatched[j].key = SessionKey(product_id) =>
                  ProfileStore_get(default_profiles, product_id).effect_mode # EFFECT_OFF

\* C21: stop_all_effects empties the session table, makes no call of the
\* backend and leaves the backend as it is; an effect tick that finds the
\* table empty makes no dispatch and arms nothing; and an empty table gets a
\* session only from an auto-apply that arms it.
C21_StopPreventsTicks ==
    [][/\ handler'.op = "stop" =>
             /\ _effect_sessions' = <<>>
             /\ dispatched' = <<>>
             /\ escaped' = NoExc
             /\ entries' = entries
             /\ UNCHANGED backendVars
       /\ (handler'.op = "tick" /\ _effect_sessions = <<>>) =>
             /\ dispatched' = <<>>
             /\ _effect_sessions' = <<>>
       /\ (_effect_sessions = <<>> /\ _effect_sessions' # <<>>) =>
             /\ handler'.op \in {"poll", "defaults"}
             /\ Range(Keys(_effect_sessions')) \subseteq handler'.armed]_vars

\* effects were stopped while a device whose default profile arms a rainbow
\* is enumerated
C21_Witness ==
    /\ handler.op = "stop"
    /\ _effect_sessions = <<>>
    /\ \E i \in 1..Len(devices) :
          LET profile == ProfileStore_get(default_profiles, devices[i].product_id)
          IN  profile.enabled /\ profile.effect_enabled /\ profile.effect_mode = EFFECT_RAINBOW

\* the ids, in the list a poll installs, of the devices whose key was not
\* detected before the poll
NewIds == {devices'[i].id : i \in {j \in 1..Len(devices') : DeviceKey(devices'[j]) \notin detected_keys}}

\* the session drives a device that was detected before the poll and is
\* still enumerated after it
DrivesKnown(session) ==
    \E i \in 1..Len(devices') :
        /\ devices'[i].product_id = session.product_id
        /\ DeviceKey(devices'[i]) \in detected_keys

\* C22: a poll sends a static default color only to devices whose key was
\* not detected before the poll, and leaves every session that drives a
\* device detected before the poll in the table, unchanged.
C22_Claim ==
    [][handler'.op = "poll" =>
          /\ \A j \in 1..Len(dispatched') : Range(dispatched'[j].ids) \subseteq NewIds
          /\ \A i \in 1..Len(_effect_sessions) :
                DrivesKnown(_effect_sessions[i]) =>
                    /\ Has(_effect_sessions', _effect_sessions[i].key)
                    /\ SessionOf(_effect_sessions', _effect_sessions[i].key)
                           = _effect_sessions[i]]_vars

\* the step hands the enabled default of the device to it: it arms the
\* session of the device's product or dispatches to the device's id
DefaultApplied(dev) ==
    \/ SessionKey(dev.product_id) \in handler'.armed
    \/ \E j \in 1..Len(dispatched') : dev.id \in Range(dispatched'[j].ids)

\* C23: a device of a product with an enabled default profile becomes a
\* detected device only in a poll that applies the default to it.  (A poll
\* applies defaults to the devices whose key was not detected before it and
\* to no other, so a device that some other step makes detected gets no
\* default from any poll while it stays connected.)
C23_Claim ==
    [][\A i \in 1..Len(devices') :
          (/\ DeviceKey(devices'[i]) \notin detected_keys
           /\ DeviceKey(devices'[i]) \in detected_keys'
           /\ ProfileStore_get(default_profiles, devices'[i].product_id).enabled)
          => /\ handler'.op = "poll"
             /\ DefaultApplied(devices'[i])]_vars

\* C24: the color packet set_rgb_many builds for a device carries a red, a
\* green and a blue byte between 0 and 255, whatever color the caller passes
\* and whether or not the device has a calibration (with or without
\* offsets, the target named or chosen as the closest); a color outside
\* 0..255 is rejected before a packet is built.
C24_PacketInRange ==
    /\ calOut.op = "packet" =>
          /\ \A i \in 4..6 : calOut.packet[i] \in 0..255
          /\ <<calOut.packet[4], calOut.packet[5], calOut.packet[6]>> = calOut.rgb
    /\ calOut.op = "rejected" => calOut.packet = <<>> /\ ~InRange(calIn.color)

\* the calibration's offset takes the color beyond both ends of the range
C24_Witness ==
    /\ calOut.op = "packet"
    /\ calIn.has_entry
    /\ calIn.cal = CalWide
    /\ calIn.color = <<0, 255, 128>>
    /\ calOut.packet[4] = 0
    /\ calOut.packet[5] = 255
    /\ calOut.packet[6] = 138

\* C26: for red, green and blue between 0 and 255 build_rgb_packet returns
\* 64 bytes, the first six of them 0x09, 0x00, 0x03, red, green, blue and
\* every other one zero; build_apply_packet returns 64 bytes, the first two
\* of them 0x01 and every other one zero.  (Byte k of the code is element
\* k + 1 of the sequence.)
C26_PacketLayout ==
    (calOut.op = "build" /\ InRange(calIn.color)) =>
        /\ Len(calOut.packet) = 64
        /\ SubSeq(calOut.packet, 1, 6)
              = <<9, 0, 3, calIn.color[1], calIn.color[2], calIn.color[3]>>
        /\ \A i \in 7..64 : calOut.packet[i] = 0
        /\ Len(calOut.apply_packet) = 64
        /\ SubSeq(calOut.apply_packet, 1, 2) = <<1, 1>>
        /\ \A i \in 3..64 : calOut.apply_packet[i] = 0

C26_Witness ==
    /\ calOut.op = "build"
    /\ calIn.color = <<255, 128, 0>>
    /\ calOut.packet[4] = 255
    /\ calOut.packet[5] = 128
    /\ calOut.packet[64] = 0
    /\ calOut.apply_packet[2] = 1

\* C25: no handler lets a failed write of a store's file escape: after Save
\* of a default profile the handler has returned, whatever the write of
\* profiles.json did.
C25_Claim == handler.op = "save" => escaped.type # "OSError"

\* C27: a lookup that directly follows set_for_device(d, c) and is made for
\* a device of d's product, at any bus and address, returns c, whatever
\* legacy entries the store holds and whether or not the write of the file
\* succeeded; a lookup for d that directly follows reset_for_device(d)
\* returns no calibration.
C27_KeyedByProduct ==
    [][/\ (storeOut.op = "set" /\ storeOut'.op = "get" /\ storeOut'.key = storeOut.key) =>
             /\ storeOut'.found
             /\ storeOut'.cal = storeOut.cal
             /\ storeOut'.exc = NoExc
       /\ (/\ storeOut.op = "reset"
           /\ storeOut'.op = "get"
           /\ storeOut'.key = storeOut.key
           /\ storeOut'.legacy_key = storeOut.legacy_key) =>
             /\ ~storeOut'.found
             /\ storeOut'.exc = NoExc]_vars
\* set_for_device for the joystick at bus 2, address 1 has stored the
\* calibration while the other joystick has a legacy entry with a different
\* one, and the write of the file failed
C27_Witness ==
    /\ storeOut.op = "set"
    /\ storeOut.key = <<"2", "2", "2", "1">>
    /\ storeOut.legacy_key = <<"2", "2", "2", "1", ":", "2", ":", "1">>
    /\ storeOut.cal = CalPink
    /\ storeOut.exc = OSError
    /\ <<"2", "2", "2", "1", ":", "2", ":", "3">> \in DOMAIN profiles
    /\ profiles[<<"2", "2", "2", "1", ":", "2", ":", "3">>] = CalRed

\* the ranges of a default profile
ValidProfile(profile) ==
    /\ \A c \in {profile.red, profile.green, profile.blue} : c \in 0..255
    /\ profile.effect_speed \in 1..20
    /\ profile.effect_brightness \in 5..100
    /\ profile.effect_mode \in {"off", "rainbow"}

\* the mode names as profiles.json spells them
ModeTexts == {<<"o","f","f">>, <<"r","a","i","n","b","o","w">>}

\* the store's entry for the product is the one read from this object of
\* profiles.json
ReadFrom(product_id, data) ==
    LET key == ProfileStore_key(product_id)
    IN  /\ profileIn.ok
        /\ key \in DOMAIN profileIn.profiles
        /\ profileIn.profiles[key].isdict
        /\ profileIn.profiles[key].data = data
        /\ key \in DOMAIN default_profiles
        /\ default_profiles[key] = ProfileStore_load(profileIn)[key]

\* C28: the profile ProfileStore.get returns, parsed from profiles.json,
\* defaulted or set from a row of the window, has red, green and blue in
\* 0..255, a speed in 1..20, a brightness in 5..100 and the mode off or
\* rainbow; a persisted mode that is no text or names no mode (in any
\* letter case) is read as off; and a get that directly follows a set for
\* the same product returns the profile that was set, whether or not the
\* write of the file succeeded.
C28_ProfilesValid ==
    [][/\ profileOut'.op = "get" =>
             /\ ValidProfile(profileOut'.profile)
             /\ \A data \in JsonProfiles :
                   (/\ ReadFrom(profileOut'.product_id, data)
                    /\ "effect_mode" \in DOMAIN data
                    /\ \/ data["effect_mode"].t # "str"
                       \/ Lower(data["effect_mode"].s) \notin ModeTexts)
                   => profileOut'.profile.effect_mode = "off"
       /\ (/\ profileOut.op = "set"
           /\ profileOut'.op = "get"
           /\ profileOut'.product_id = profileOut.product_id) =>
             profileOut'.profile = profileOut.given]_vars

\* a get returns the joystick's profile parsed from an entry whose values
\* lie beyond the ranges
C28_Witness ==
    /\ profileOut.op = "get"
    /\ profileOut.product_id = PID_JOYSTICK
    /\ profileIn.ok
    /\ ProfileStore_key(PID_JOYSTICK) \in DOMAIN profileIn.profiles
    /\ profileIn.profiles[ProfileStore_key(PID_JOYSTICK)].isdict
    /\ "red" \in DOMAIN profileIn.profiles[ProfileStore_key(PID_JOYSTICK)].data
    /\ profileIn.profiles[ProfileStore_key(PID_JOYSTICK)].data["red"] = JInt(300)
    /\ profileOut.profile.red = 255
    /\ profileOut.profile.green = 0
    /\ profileOut.profile.blue = 255
    /\ profileOut.profile.effect_speed = 1
    /\ profileOut.profile.effect_brightness = 100
    /\ profileOut.profile.effect_mode = "rainbow"

\* the names of the palette
Palette == {"Red", "Green", "Blue", "Orange", "Purple", "Pink", "White"}

\* C29: every calibration the store holds, and every calibration a lookup
\* returns or the dialog stores or hands to the preview, has offsets under
\* names of the palette only, whatever calibration.json held at the start
\* and after any sequence of Save, Reset and Preview of the dialog, lookups
\* that migrate a legacy entry and resets of the store.
C29_PaletteKeys ==
    /\ \A key \in DOMAIN profiles : DOMAIN OffsetsOf(profiles[key]) \subseteq Palette
    /\ DOMAIN OffsetsOf(storeOut.cal) \subseteq Palette

\* Save has stored an offset for White in the calibration that a lookup
\* migrated from a legacy entry of a file that held an offset for Teal
C29_Witness ==
    /\ storeOut.op = "save_profile"
    /\ storeOut.found
    /\ storeOut.key \in DOMAIN profiles
    /\ DOMAIN OffsetsOf(profiles[storeOut.key]) = {"Red", "White"}
    /\ \E key \in DOMAIN saved : "Teal" \in DOMAIN saved[key].target_offsets
    /\ \E key \in DOMAIN profiles : Len(key) > 4 /\ profiles[key].target_offsets.map # <<>>

\* the step of the claim's order a logged call belongs to
StepRank(ev) ==
    CASE ev.op \in {"detach_kernel_driver", "claim_interface"} -> 1
      [] ev.op = "ctrl_transfer" /\ ev.a = 777 -> 2
      [] ev.op = "ctrl_transfer" /\ ev.a = 768 -> 3
      [] ev.op = "release_interface" -> 4
      [] OTHER -> 5

\* the calls of the attempt, in the order they were made
Calls(op) == {i \in 1..Len(log) : log[i].op = op}

\* the log is the log of the attempt that interfaces and windex belong to
Attempting == pc \in {"claim", "color", "apply", "finally", "attempt_end"}

\* what holds of the control transfers of an attempt: at most one color and
\* one apply transfer, the color transfer after the successful claim of every
\* interface of the attempt, the apply transfer right after a color transfer
\* that succeeded and with its wIndex, and no transfer after a release
TransferRules ==
    \A i \in Calls("ctrl_transfer") :
        /\ \A iface \in Range(interfaces) :
              \E j \in 1..(i - 1) : /\ log[j].op = "claim_interface"
                                    /\ log[j].a = iface
                                    /\ log[j].res = NoExc
        /\ \A j \in 1..(i - 1) : log[j].op \notin {"release_interface", "attach_kernel_driver"}
        /\ \A j \in Calls("ctrl_transfer") : log[j].a = log[i].a => j = i
        /\ log[i].b = windex
        /\ log[i].a \in {777, 768}
        /\ log[i].a = 768 =>
              /\ i > 1
              /\ log[i - 1] = Ev("ctrl_transfer", 777, log[i].b, NoExc)

\* C30 as stated: the calls of an attempt are made in the order claim (with
\* detach), color transfer, apply transfer, release, reattach, every release
\* ahead of every reattach.
C30_Claim ==
    Attempting =>
        /\ \A i, j \in 1..Len(log) : i < j => StepRank(log[i]) <= StepRank(log[j])
        /\ TransferRules

\* C30 amended: the calls of an attempt are made in the order claim (each
\* interface's driver, where active, detached right before its claim), color
\* transfer, apply transfer, then release and reattach, which go interface
\* by interface in the order of the interface list: each interface is
\* released and, if the attempt detached its driver, reattached right after
\* its own release, before the next interface is released.  No control
\* transfer is made unless every interface was claimed, and none after the
\* first release.
C30_AttemptOrder ==
    Attempting =>
        /\ \A i, j \in 1..Len(log) :
              i < j => Min(StepRank(log[i]), 4) <= Min(StepRank(log[j]), 4)
        /\ TransferRules
        /\ \A i \in Calls("detach_kernel_driver") :
              /\ \A j \in 1..(i - 1) : log[j].a # log[i].a
              /\ (log[i].res = NoExc /\ i < Len(log)) =>
                    log[i + 1].op = "claim_interface" /\ log[i + 1].a = log[i].a
        /\ \A i \in Calls("attach_kernel_driver") :
              /\ i > 1
              /\ log[i - 1].op = "release_interface"
              /\ log[i - 1].a = log[i].a
        /\ \A i, j \in Calls("release_interface") :
              i < j => \E m, n \in 1..Len(interfaces) :
                          m < n /\ interfaces[m] = log[i].a /\ interfaces[n] = log[j].a

\* an attempt on [2, 0] with both drivers active that made every call, the
\* reattach of interface 2 ahead of the release of interface 0
C30_Witness ==
    /\ pc = "attempt_end"
    /\ log = <<Ev("detach_kernel_driver", 2, 0, NoExc), Ev("claim_interface", 2, 0, NoExc),
               Ev("detach_kernel_driver", 0, 0, NoExc), Ev("claim_interface", 0, 0, NoExc),
               Ev("ctrl_transfer", 777, 512, NoExc), Ev("ctrl_transfer", 768, 512, NoExc),
               Ev("release_interface", 2, 0, NoExc), Ev("attach_kernel_driver", 2, 0, NoExc),
               Ev("release_interface", 0, 0, NoExc), Ev("attach_kernel_driver", 0, 0, NoExc)>>


(***************************************************************************)
(* C31.  Every dispatch reaches the physical device its id denoted when    *)
(* the caller obtained it: the devices a preview of the calibration dialog *)
(* drives are exactly the device of the dialog's list whose id it passed.  *)
(***************************************************************************)
C31_Claim ==
    (dialog.picked # <<>> /\ dialog.received # {})
        => dialog.received = {DeviceKey(dialog.picked[1])}


(***************************************************************************)
(* C32                                                                     *)
(***************************************************************************)
\* the body of an attempt, from the first claim to the last release
InBody == pc \in {"claim", "color", "apply", "finally"}

\* a step taken while a call of set_rgb_many is under way replaces neither
\* the handle set nor the window's list and starts no other call
NoOverlap ==
    pc # "idle" =>
        /\ entries' = entries
        /\ devices' = devices
        /\ listing' = listing
        /\ handleGen' = handleGen
        /\ pc # "done" => (targets' = targets
                           /\ <<args'.red, args'.green, args'.blue>>
                                  = <<args.red, args.green, args.blue>>)

\* C32 as stated: between the start of a batch dispatch and its return no
\* refresh replaces the handle set and no other dispatch starts, so
\* interfaces are claimed only inside the body of the one running attempt:
\* none is claimed when the call moves to the next attempt or device, or
\* returns to the event loop where a refresh can begin.
C32_Claim ==
    /\ [][NoOverlap]_vars
    /\ [](~InBody => StillClaimed = {})

\* C32 amended: no refresh and no other dispatch runs between the start of a
\* batch dispatch and its return; outside the body of the one running
\* attempt an interface of that attempt is still claimed only where its
\* release call raised a USB error (swallowed).
C32_NoOverlap ==
    /\ [][NoOverlap]_vars
    /\ [](~InBody => \A iface \in StillClaimed : Raised("release_interface", iface))

\* the second device of a batch holds a claimed interface and waits for its
\* color transfer, the first device being done
C32_Witness ==
    /\ pc = "color"
    /\ tIdx = 2
    /\ attempted = <<targets[1].info.id, targets[2].info.id>>
    /\ StillClaimed # {}


(***************************************************************************)
(* C33.  In every reachable state the device list of the main window is    *)
(* the info of the backend's current entries, same ids in the same order:  *)
(* no refresh-on-empty of set_rgb_many changes the backend's device set    *)
(* behind the window's list.                                               *)
(***************************************************************************)
C33_Claim == devices = Infos(entries)


(***************************************************************************)
(* C34.  A poll tick whose refresh finds no key absent from the keys       *)
(* detected before it issues no transfer and creates, replaces or removes  *)
(* no effect session; the static default color a poll sends goes only to   *)
(* devices whose key was not detected before, so a device that stays       *)
(* connected under its key receives it from at most one poll.              *)
(***************************************************************************)
C34_OncePerConnection ==
    [][handler'.op = "poll" =>
          /\ detected_keys' \subseteq detected_keys =>
                 /\ dispatched' = <<>>
                 /\ handler'.armed = {}
                 /\ _effect_sessions' = _effect_sessions
          /\ \A j \in 1..Len(dispatched') :
                \A device_id \in Range(dispatched'[j].ids) :
                   \E i \in 1..Len(devices') :
                      /\ devices'[i].id = device_id
                      /\ DeviceKey(devices'[i]) \notin detected_keys]_vars

\* a poll has run with the joystick, whose default is an enabled static
\* color, connected and has sent nothing, a session armed before being
\* still in the table
C34_Witness ==
    /\ handler.op = "poll"
    /\ dispatched = <<>>
    /\ _effect_sessions # <<>>
    /\ \E i \in 1..Len(devices) :
          LET profile == ProfileStore_get(default_profiles, devices[i].product_id)
          IN  profile.enabled /\ ~profile.effect_enabled


(***************************************************************************)
(* C35                                                                     *)
(***************************************************************************)
\* the profile arms an effect session
ArmsEffect(profile) ==
    profile.enabled /\ profile.effect_enabled /\ profile.effect_mode # EFFECT_OFF

\* the last handler sent the static color of the product to its devices
StaticSent(product_id) ==
    \E j \in 1..Len(dispatched) :
        /\ dispatched[j].by = "auto"
        /\ dispatched[j].key = SessionKey(product_id)
        /\ dispatched[j].ids
               = Ids(SelectSeq(devices, LAMBDA dev : dev.product_id = product_id))

\* C35: after _auto_apply_default_profiles(new_only=False) has run with a
\* device enumerated, for every product of an enumerated device the session
\* "profile:<product_id>" exists exactly when the product's profile is
\* enabled with an effect other than off, a static color was dispatched to
\* the product's devices exactly when the profile is enabled and armed no
\* session, and a disabled profile has neither a dispatch nor a session.
C35_Claim ==
    (handler.op = "defaults" /\ devices # <<>>) =>
        \A i \in 1..Len(devices) :
            LET product_id == devices[i].product_id
                profile == ProfileStore_get(default_profiles, product_id)
                key == SessionKey(product_id)
            IN  /\ Has(_effect_sessions, key) <=> ArmsEffect(profile)
                /\ StaticSent(product_id) <=> (profile.enabled /\ key \notin handler.armed)
                /\ ~profile.enabled => (~StaticSent(product_id)
                                         /\ ~Has(_effect_sessions, key))


(***************************************************************************)
(* C36                                                                     *)
(***************************************************************************)
\* what the tick of this step did with the session: a session that has no
\* target is passed over and stays as it was; a session that has targets is
\* dispatched to them, its phase advanced when the call returned and
\* unchanged when the call raised
TickedAlone(session) ==
    LET key == session.key
        target_ids == _resolved_target_ids(session, devices)
        calls == {j \in 1..Len(dispatched') : dispatched'[j].key = key}
    IN  /\ Has(_effect_sessions', key)
        /\ IF target_ids = <<>>
           THEN /\ calls = {}
                /\ SessionOf(_effect_sessions', key) = session
           ELSE \E j \in calls :
                   /\ calls = {j}
                   /\ dispatched'[j].by = "tick"
                   /\ dispatched'[j].ids = target_ids
                   /\ SessionOf(_effect_sessions', key)
                          = IF dispatched'[j].kind = "returned"
                            THEN [session EXCEPT
                                     !.phase = next_phase(session.phase, session.speed)]
                            ELSE session

\* C36: within one effect tick every session is processed on its own: a
\* session that is skipped or whose call of set_rgb_many raises keeps no
\* other session of the table from being dispatched and having its phase
\* advanced in that tick, and changes no other session.
C36_Claim ==
    [][(handler'.op = "tick" /\ devices # <<>>) =>
          \A i \in 1..Len(_effect_sessions) : TickedAlone(_effect_sessions[i])]_vars

====
